---- MODULE Spec2Model ----
(***************************************************************************)
(* kravex (crates/kvx): the streaming migration pipeline.                  *)
(*                                                                         *)
(*   Source --pages--> bounded channel --> SinkWorker 1..N --> Sink        *)
(*                                                                         *)
(* Strings (pages, payloads) are sequences of one-character strings, so    *)
(* that byte lengths, concatenation and framing are computed as the code   *)
(* computes them.  Every page travelling through the channel carries the   *)
(* ordinal `id` of its emission by the Source next to its bytes; the id is *)
(* an observation tag only, no action reads it to decide anything.         *)
(***************************************************************************)
EXTENDS Integers, Sequences, FiniteSets, TLC

(***************************************************************************)
(* Bounds of the exploration.                                              *)
(***************************************************************************)
MaxSinkParallelism == 2
MaxQueueCapacity == 2
MaxPages == 3
MaxFileLen == 4
MaxBatchDocs == 2
MaxBufferedPages == 2
MaxIdLen == 2

(***************************************************************************)
(* Program constants.                                                      *)
(***************************************************************************)
BUFFER_EPSILON_BYTES == 65536
CommonSinkConfig_default_max_request_size_bytes == 67108864
default_max_batch_size_docs == 10000
default_max_batch_size_bytes == 10485760
BufWriter_capacity == 8192

(***************************************************************************)
(* Inputs: the pages a Source can return (never empty: FileSource and      *)
(* InMemorySource return None instead of an empty page) and the            *)
(* max_request_size_bytes values a File sink is configured with: one below *)
(* the epsilon (every page triggers a flush), one reached by 2 bytes of    *)
(* pages, one that the pages of a bounded run never reach.                 *)
(***************************************************************************)
PageSet == { <<"a">>, <<"b", "\n", "c">> }
MaxRequestSizeSet ==
    { 1024, BUFFER_EPSILON_BYTES + 2, BUFFER_EPSILON_BYTES + 100 }

Scripts == UNION { [1..n -> PageSet] : n \in 0..MaxPages }

(***************************************************************************)
(* Inputs of a File source: every file of at most MaxFileLen bytes over a  *)
(* letter, LF and CR, and the batch limits of its configuration.           *)
(***************************************************************************)
FileContents == UNION { [1..n -> { "a", "\n", "\r" }] : n \in 0..MaxFileLen }
BatchBytesSet == { 1, 3, default_max_batch_size_bytes }

\* The files of the File-to-File runs: empty, with and without a final
\* newline, with CRLF terminators, with blank lines inside and in front.
FileSet ==
    { <<>>,
      <<"a", "\n", "b", "\n">>,
      <<"a", "\n", "b">>,
      <<"a", "\r", "\n", "b", "\r", "\n">>,
      <<"a", "\n", "\n", "b", "\n">>,
      <<"\n", "\n", "a", "\n">>,
      <<"a", "\n", "b", "\n", "c", "\n">> }

VARIABLES
    app_config,      \* AppConfig: runtime knobs and the sink configuration
    script,          \* the pages the Source holds, in emission order
    cursor,          \* Source position: pages returned so far
    src_pc,          \* SourceWorker: "next_page" | "send" | "done"
    src_page,        \* SourceWorker: the page it is sending
    chan,            \* async_channel queue
    chan_closed,     \* async_channel closed flag
    sender_count,    \* live Sender handles
    receiver_count,  \* live Receiver handles
    pc,              \* SinkWorker w: "recv" | "flush" | "final_flush" | "close" | "done"
    buffer,          \* SinkWorker w: buffered pages
    buffer_bytes,    \* SinkWorker w: running byte count
    received,        \* SinkWorker w: ids of the pages it took off the channel
    sink_log,        \* Sink of worker w: the send/close calls made on it
    result,          \* task results, in worker_handles order
    sup_pc,          \* Supervisor: "joining" | "returned"
    sup_result,      \* Supervisor::start_workers return value
    transformer,     \* the DocumentTransformer run() resolved
    file_source,     \* FileSource: the file, the reader's position, the results returned
    sink_file,       \* the bytes of the sink file on disk
    buf_writer,      \* FileSink of worker w: its BufWriter's buffer and file offset
    http_log,        \* the HTTP requests sent to the Elasticsearch cluster
    sink_backends,   \* run(): the number of sink backends built
    run_pc,          \* run(): the step it is at
    run_result,      \* run(): what it returned
    call,            \* a function called on its own: its name and arguments
    ret              \* what that call returned

\* The channel, the workers and the supervisor.
worker_vars == << script, cursor, src_pc, src_page, chan, chan_closed,
                 sender_count, receiver_count, pc, buffer, buffer_bytes,
                 received, sink_log, result, sup_pc, sup_result >>

\* What run() set up before the workers started.
setup_vars == << transformer, file_source, sink_backends, run_pc, run_result >>

\* What the sinks act on outside the process.
backend_vars == << sink_file, buf_writer, http_log >>

\* A function of the program called outside a run.
call_vars == << call, ret >>

vars == << app_config, script, cursor, src_pc, src_page, chan, chan_closed,
           sender_count, receiver_count, pc, buffer, buffer_bytes, received,
           sink_log, result, sup_pc, sup_result, setup_vars, backend_vars,
           call_vars >>

NoPage == [id |-> 0, bytes |-> <<>>]

\* run() has not returned.
NoResult == [status |-> "none", context |-> "", names |-> <<>>]

\* No function is called on its own.
NoCall == [op |-> "none", composer |-> "", transformer |-> "", pages |-> <<>>,
           id |-> <<>>]
NoRet == [done |-> FALSE, ok |-> FALSE, items |-> <<>>, payload |-> <<>>,
          error_line |-> 0]
NoCallMade == call = NoCall /\ ret = NoRet

\* A run whose source is not a file.
NoFileSource == [content |-> <<>>, pos |-> 0, returned |-> <<>>]

(***************************************************************************)
(* Configuration.                                                          *)
(***************************************************************************)
SourceKinds == { "Elasticsearch", "File", "S3Rally", "InMemory" }
SinkKinds == { "Elasticsearch", "File", "InMemory" }

SinkConfigs ==
    { [kind |-> "File", max_request_size_bytes |-> m] : m \in MaxRequestSizeSet }
    \cup { [kind |-> "InMemory", max_request_size_bytes |-> 0] }

\* A transformer that falls back to Passthrough for a pair it does not know.
from_configs_fallback(source, sink) ==
    IF source.kind = "File" /\ sink.kind = "Elasticsearch" THEN "RallyS3ToEs"
    ELSE "Passthrough"

\* DocumentTransformer::from_configs: the match on the (source, sink) pair;
\* "panic" is the last arm.
from_configs(source, sink) ==
    IF source.kind = "File" /\ sink.kind = "Elasticsearch" THEN "RallyS3ToEs"
    ELSE IF \/ (source.kind = "File" /\ sink.kind = "File")
            \/ (source.kind = "InMemory" /\ sink.kind = "InMemory")
            \/ (source.kind = "Elasticsearch" /\ sink.kind = "File")
         THEN "Passthrough"
    ELSE "panic"

\* The source of a pipeline run whose pages are given by `script`: a File
\* source in front of a File sink, the in-memory source in front of the
\* in-memory sink.
ScriptedSourceConfig(sink) ==
    IF sink.kind = "InMemory" THEN [kind |-> "InMemory"]
    ELSE [kind |-> "File",
          max_batch_size_docs |-> default_max_batch_size_docs,
          max_batch_size_bytes |-> default_max_batch_size_bytes]

AppConfigs ==
    { [queue_capacity |-> q, sink_parallelism |-> n,
       source_config |-> ScriptedSourceConfig(k), sink_config |-> k] :
        q \in 1..MaxQueueCapacity, n \in 1..MaxSinkParallelism, k \in SinkConfigs }

max_request_size_bytes(sink) ==
    IF sink.kind = "InMemory"
    THEN CommonSinkConfig_default_max_request_size_bytes
    ELSE sink.max_request_size_bytes

\* A composer choice that knows NDJSON only.
from_sink_config_ndjson(sink) == "Ndjson"

from_sink_config(sink) ==
    IF sink.kind = "InMemory" THEN "JsonArray" ELSE "Ndjson"

SinkWorkers == 1..app_config.sink_parallelism
SourceHandle == app_config.sink_parallelism + 1
Handles == 1..SourceHandle

(***************************************************************************)
(* Option<T>: None is the empty sequence, Some(x) the sequence of x alone. *)
(***************************************************************************)
None == <<>>
Some(x) == <<x>>

(***************************************************************************)
(* serde_json on the JSON texts of the model: objects, strings and         *)
(* unsigned integers below 2^64, over the characters of AsciiOrder. A      *)
(* Value is a record; an object keeps its members sorted by key and one    *)
(* member per key (a BTreeMap).                                            *)
(***************************************************************************)
Digits == { "0", "1", "2", "3", "4", "5", "6", "7", "8", "9" }
ControlChars == { "\t", "\n", "\f", "\r" }
Whitespace == { " ", "\t", "\n", "\r" }
HexDigits == << "0", "1", "2", "3", "4", "5", "6", "7", "8", "9",
               "a", "b", "c", "d", "e", "f" >>

\* The characters of the model in byte order.
AsciiOrder ==
    << "\t", "\n", "\f", "\r", " ", "!", "\"", "#", "$", "%", "&", "'", "(", ")",
       "*", "+", ",", "-", ".", "/", "0", "1", "2", "3", "4", "5", "6", "7",
       "8", "9", ":", ";", "<", "=", ">", "?", "@", "A", "B", "C", "D", "E",
       "F", "G", "H", "I", "J", "K", "L", "M", "N", "O", "P", "Q", "R", "S",
       "T", "U", "V", "W", "X", "Y", "Z", "[", "\\", "]", "^", "_", "a",
       "b", "c", "d", "e", "f", "g", "h", "i", "j", "k", "l", "m", "n", "o",
       "p", "q", "r", "s", "t", "u", "v", "w", "x", "y", "z", "{", "|", "}",
       "~" >>

\* The byte of a character: 9, 10, 12, 13, then 32..126 without 96.
CharCode(c) ==
    LET i == CHOOSE k \in DOMAIN AsciiOrder : AsciiOrder[k] = c
    IN  IF i <= 4 THEN << 9, 10, 12, 13 >>[i]
        ELSE IF i <= 68 THEN i + 27
        ELSE i + 28

\* The value of a hexadecimal digit, in either case.
HexValue(c) ==
    IF c \in { "A", "B", "C", "D", "E", "F" }
    THEN 9 + (CHOOSE k \in 1..6 : << "A", "B", "C", "D", "E", "F" >>[k] = c)
    ELSE (CHOOSE k \in DOMAIN HexDigits : HexDigits[k] = c) - 1

IsHexDigit(c) == c \in { HexDigits[k] : k \in DOMAIN HexDigits } \cup { "A", "B", "C", "D", "E", "F" }

RECURSIVE StrLess(_, _)
StrLess(a, b) ==
    IF b = <<>> THEN FALSE
    ELSE IF a = <<>> THEN TRUE
    ELSE IF Head(a) = Head(b) THEN StrLess(Tail(a), Tail(b))
    ELSE CharCode(Head(a)) < CharCode(Head(b))

JsonString(chars) == [type |-> "string", text |-> chars, members |-> <<>>]
JsonNumber(digits) == [type |-> "number", text |-> digits, members |-> <<>>]
JsonObject(members) == [type |-> "object", text |-> <<>>, members |-> members]

ParseError == [ok |-> FALSE, value |-> JsonObject(<<>>), next |-> 0]

\* Map::insert: the value of an existing key is replaced.
RECURSIVE map_insert(_, _, _)
map_insert(members, key, value) ==
    IF members = <<>> THEN << [key |-> key, value |-> value] >>
    ELSE IF Head(members).key = key
         THEN << [key |-> key, value |-> value] >> \o Tail(members)
    ELSE IF StrLess(key, Head(members).key)
         THEN << [key |-> key, value |-> value] >> \o members
    ELSE << Head(members) >> \o map_insert(Tail(members), key, value)

\* Value::get: the member of an object with that key, None for other values.
map_get(value, key) ==
    IF \E i \in DOMAIN value.members : value.members[i].key = key
    THEN Some(value.members[CHOOSE i \in DOMAIN value.members :
                                value.members[i].key = key].value)
    ELSE None

\* Map::remove.
map_remove(members, key) == SelectSeq(members, LAMBDA m : m.key # key)

\* The character an escape sequence stands for.
Unescape(c) ==
    CASE c = "n" -> "\n" [] c = "r" -> "\r" [] c = "t" -> "\t" [] c = "f" -> "\f"
      [] OTHER -> c

\* The character of a \uXXXX escape at position j (the "u").
UnicodeEscape(s, j) ==
    CHOOSE c \in { AsciiOrder[k] : k \in DOMAIN AsciiOrder } :
        CharCode(c) = 4096 * HexValue(s[j + 1]) + 256 * HexValue(s[j + 2])
                      + 16 * HexValue(s[j + 3]) + HexValue(s[j + 4])

RECURSIVE skip_ws(_, _)
skip_ws(s, i) == IF i <= Len(s) /\ s[i] \in Whitespace THEN skip_ws(s, i + 1) ELSE i

\* The rest of a string after its opening quote; the text after the string
\* starts behind the whitespace that follows it.
RECURSIVE parse_str(_, _, _)
parse_str(s, j, acc) ==
    IF j > Len(s) THEN ParseError
    ELSE IF s[j] = "\""
         THEN [ok |-> TRUE, value |-> JsonString(acc), next |-> skip_ws(s, j + 1)]
    ELSE IF s[j] = "\\"
         THEN IF j + 1 <= Len(s) /\ s[j + 1] \in { "\"", "\\", "/", "n", "r", "t", "f" }
              THEN parse_str(s, j + 2, Append(acc, Unescape(s[j + 1])))
              ELSE IF /\ j + 5 <= Len(s)
                      /\ s[j + 1] = "u"
                      /\ \A k \in 2..5 : IsHexDigit(s[j + k])
              THEN parse_str(s, j + 6, Append(acc, UnicodeEscape(s, j + 1)))
              ELSE ParseError
    ELSE IF s[j] \in ControlChars THEN ParseError
    ELSE parse_str(s, j + 1, Append(acc, s[j]))

RECURSIVE scan_digits(_, _)
scan_digits(s, j) == IF j <= Len(s) /\ s[j] \in Digits THEN scan_digits(s, j + 1) ELSE j

\* The number that ends before position j.
number_until(s, i, j) ==
    [ok |-> TRUE, value |-> JsonNumber(SubSeq(s, i, j - 1)), next |-> skip_ws(s, j)]

\* A number: "0", or a run of digits that does not start with "0".
parse_number(s, i) ==
    number_until(s, i, IF s[i] = "0" THEN i + 1 ELSE scan_digits(s, i))

RECURSIVE parse_value(_, _)
RECURSIVE parse_value_at(_, _)
RECURSIVE parse_object(_, _)
RECURSIVE parse_members(_, _, _)
RECURSIVE parse_member_value(_, _, _)
RECURSIVE parse_member_end(_, _, _, _)
\* A value, with the whitespace around it.
parse_value(s, i) == parse_value_at(s, skip_ws(s, i))

parse_value_at(s, i) ==
    IF i > Len(s) THEN ParseError
    ELSE IF s[i] = "\"" THEN parse_str(s, i + 1, <<>>)
    ELSE IF s[i] \in Digits THEN parse_number(s, i)
    ELSE IF s[i] = "{" THEN parse_object(s, skip_ws(s, i + 1))
    ELSE ParseError

\* An object after its opening brace: the closing brace, or members.
parse_object(s, i) ==
    IF i <= Len(s) /\ s[i] = "}"
    THEN [ok |-> TRUE, value |-> JsonObject(<<>>), next |-> skip_ws(s, i + 1)]
    ELSE parse_members(s, i, <<>>)

\* The members of an object from the key at position i on: the key, ...
parse_members(s, i, acc) ==
    IF i > Len(s) \/ s[i] # "\"" THEN ParseError
    ELSE parse_member_value(s, parse_str(s, i + 1, <<>>), acc)

\* ... a colon and the value of key k, ...
parse_member_value(s, k, acc) ==
    IF ~k.ok \/ k.next > Len(s) \/ s[k.next] # ":" THEN ParseError
    ELSE parse_member_end(s, k.value.text, parse_value(s, k.next + 1), acc)

\* ... and after the value v a comma and the next member, or the closing brace.
parse_member_end(s, key, v, acc) ==
    IF ~v.ok \/ v.next > Len(s) THEN ParseError
    ELSE IF s[v.next] = ","
         THEN parse_members(s, skip_ws(s, v.next + 1), map_insert(acc, key, v.value))
    ELSE IF s[v.next] = "}"
         THEN [ok |-> TRUE, value |-> JsonObject(map_insert(acc, key, v.value)),
               next |-> skip_ws(s, v.next + 1)]
    ELSE ParseError

\* A parse that stopped before the end of the text is an error.
whole_text(s, r) == IF r.ok /\ r.next = Len(s) + 1 THEN r ELSE ParseError

\* serde_json::from_str: one value and nothing after it.
from_str(s) == whole_text(s, parse_value(s, 1))

\* escape_json_string: quote and backslash get a backslash, \n, \r and \t
\* their letter, every other character below 0x20 becomes \u00xx.
\* An escaping that leaves the backslash as it is.
RECURSIVE escape_json_string_raw_backslash(_)
escape_json_string_raw_backslash(s) ==
    IF s = <<>> THEN <<>>
    ELSE (CASE Head(s) = "\"" -> << "\\", "\"" >>
            [] Head(s) = "\n" -> << "\\", "n" >>
            [] Head(s) = "\r" -> << "\\", "r" >>
            [] Head(s) = "\t" -> << "\\", "t" >>
            [] Head(s) \in ControlChars ->
                    << "\\", "u", "0", "0", HexDigits[(CharCode(Head(s)) \div 16) + 1],
                       HexDigits[(CharCode(Head(s)) % 16) + 1] >>
            [] OTHER -> << Head(s) >>) \o escape_json_string_raw_backslash(Tail(s))

RECURSIVE escape_json_string(_)
escape_json_string(s) ==
    IF s = <<>> THEN <<>>
    ELSE (CASE Head(s) = "\"" -> << "\\", "\"" >>
            [] Head(s) = "\\" -> << "\\", "\\" >>
            [] Head(s) = "\n" -> << "\\", "n" >>
            [] Head(s) = "\r" -> << "\\", "r" >>
            [] Head(s) = "\t" -> << "\\", "t" >>
            [] Head(s) \in ControlChars ->
                    << "\\", "u", "0", "0", HexDigits[(CharCode(Head(s)) \div 16) + 1],
                       HexDigits[(CharCode(Head(s)) % 16) + 1] >>
            [] OTHER -> << Head(s) >>) \o escape_json_string(Tail(s))

\* serde_json's string escaping: as above, but \f has its letter too.
RECURSIVE format_escaped_str(_)
format_escaped_str(s) ==
    IF s = <<>> THEN <<>>
    ELSE (CASE Head(s) = "\"" -> << "\\", "\"" >>
            [] Head(s) = "\\" -> << "\\", "\\" >>
            [] Head(s) = "\n" -> << "\\", "n" >>
            [] Head(s) = "\r" -> << "\\", "r" >>
            [] Head(s) = "\t" -> << "\\", "t" >>
            [] Head(s) = "\f" -> << "\\", "f" >>
            [] OTHER -> << Head(s) >>) \o format_escaped_str(Tail(s))

\* serde_json::to_string: the compact text of a value.
RECURSIVE to_string(_)
RECURSIVE members_to_string(_)
to_string(value) ==
    CASE value.type = "string" -> << "\"" >> \o format_escaped_str(value.text) \o << "\"" >>
      [] value.type = "number" -> value.text
      [] value.type = "object" -> << "{" >> \o members_to_string(value.members) \o << "}" >>

members_to_string(members) ==
    IF members = <<>> THEN <<>>
    ELSE << "\"" >> \o format_escaped_str(Head(members).key) \o << "\"", ":" >>
         \o to_string(Head(members).value)
         \o (IF Len(members) > 1 THEN << "," >> ELSE <<>>)
         \o members_to_string(Tail(members))

(***************************************************************************)
(* Transform and composers.                                                *)
(***************************************************************************)
RECURSIVE Flatten(_)
Flatten(ss) == IF ss = <<>> THEN <<>> ELSE Head(ss) \o Flatten(Tail(ss))

\* Passthrough: the whole page as one borrowed item; never fails.
PassthroughTransform(page) == [ok |-> TRUE, items |-> <<page>>, error_line |-> 0]

ObjectID == << "O", "b", "j", "e", "c", "t", "I", "D" >>

THE_METADATA_FIELDS_WE_DONT_NEED ==
    << << "_", "r", "a", "l", "l", "y", "A", "P", "I", "M", "a", "j", "o", "r" >>,
       << "_", "r", "a", "l", "l", "y", "A", "P", "I", "M", "i", "n", "o", "r" >>,
       << "_", "r", "e", "f" >>,
       << "_", "r", "e", "f", "O", "b", "j", "e", "c", "t", "U", "U", "I", "D" >>,
       << "_", "o", "b", "j", "e", "c", "t", "V", "e", "r", "s", "i", "o", "n" >>,
       << "_", "C", "r", "e", "a", "t", "e", "d", "A", "t" >> >>

\* build_es_action_line: {"index":{"_id":"<escaped id>"}}, or {"index":{}}.
build_es_action_line(the_document_id) ==
    IF the_document_id = None
    THEN << "{", "\"", "i", "n", "d", "e", "x", "\"", ":", "{", "}", "}" >>
    ELSE << "{", "\"", "i", "n", "d", "e", "x", "\"", ":", "{",
            "\"", "_", "i", "d", "\"", ":", "\"" >>
         \o escape_json_string(the_document_id[1]) \o << "\"", "}", "}" >>

\* A removal of the first metadata field only.
remove_fields_first_only(members, fields) ==
    IF fields = <<>> THEN members ELSE map_remove(members, Head(fields))

RECURSIVE remove_fields(_, _)
remove_fields(members, fields) ==
    IF fields = <<>> THEN members
    ELSE remove_fields(map_remove(members, Head(fields)), Tail(fields))

\* The document id: the number or the string as it is, the JSON text of
\* anything else.
the_document_identity(oid) ==
    IF oid = None THEN None
    ELSE IF oid[1].type \in { "number", "string" } THEN Some(oid[1].text)
    ELSE Some(to_string(oid[1]))

\* The document without the metadata fields of its top level.
the_cleaned_body(doc) ==
    IF doc.type = "object"
    THEN to_string(JsonObject(remove_fields(doc.members,
                                            THE_METADATA_FIELDS_WE_DONT_NEED)))
    ELSE to_string(doc)

\* An item with the source line before the action line.
transform_parsed_source_first(parsed) ==
    IF ~parsed.ok THEN [ok |-> FALSE, item |-> <<>>]
    ELSE [ok |-> TRUE,
          item |-> the_cleaned_body(parsed.value) \o << "\n" >>
                   \o build_es_action_line(
                          the_document_identity(map_get(parsed.value, ObjectID)))]

transform_parsed(parsed) ==
    IF ~parsed.ok THEN [ok |-> FALSE, item |-> <<>>]
    ELSE [ok |-> TRUE,
          item |-> build_es_action_line(
                       the_document_identity(map_get(parsed.value, ObjectID)))
                   \o << "\n" >> \o the_cleaned_body(parsed.value)]

\* rally_s3_to_es::transform: one Rally document to an action line and a
\* source line.
rally_s3_to_es_transform(raw) == transform_parsed(from_str(raw))

\* The lines of a page: the pieces between "\n", the empty ones included.
RECURSIVE split_lines(_, _)
split_lines(page, line) ==
    IF page = <<>> THEN << line >>
    ELSE IF Head(page) = "\n" THEN << line >> \o split_lines(Tail(page), <<>>)
    ELSE split_lines(Tail(page), Append(line, Head(page)))

\* The lines from the n-th of the page on, in order; the first line that
\* does not parse ends the transform with an error that names it.
RECURSIVE transform_lines(_, _)
transform_lines(lines, n) ==
    IF lines = <<>> THEN [ok |-> TRUE, items |-> <<>>, error_line |-> 0]
    ELSE IF Head(lines) = <<>> THEN transform_lines(Tail(lines), n + 1)
    ELSE LET h == rally_s3_to_es_transform(Head(lines))
             t == transform_lines(Tail(lines), n + 1)
         IN  IF ~h.ok THEN [ok |-> FALSE, items |-> <<>>, error_line |-> n]
             ELSE IF ~t.ok THEN t
             ELSE [ok |-> TRUE, items |-> << h.item >> \o t.items,
                   error_line |-> 0]

\* RallyS3ToEs: every non-empty line of the page becomes one item; a line
\* that does not parse fails the page.
RallyS3ToEsTransform(page) == transform_lines(split_lines(page, <<>>), 1)

\* A transform that is applied again to the items it made.
RECURSIVE transform_items_again(_)
transform_items_again(items) ==
    IF items = <<>> THEN <<>>
    ELSE RallyS3ToEsTransform(Head(items)).items
         \o transform_items_again(Tail(items))

Transform_twice(tf, page) ==
    IF tf = "RallyS3ToEs"
    THEN [ok |-> RallyS3ToEsTransform(page).ok,
          items |-> transform_items_again(RallyS3ToEsTransform(page).items),
          error_line |-> RallyS3ToEsTransform(page).error_line]
    ELSE PassthroughTransform(page)

\* DocumentTransformer::transform: the resolved variant's transform.
Transform(tf, page) ==
    IF tf = "RallyS3ToEs" THEN RallyS3ToEsTransform(page) ELSE PassthroughTransform(page)

RECURSIVE TransformAll(_, _)
TransformAll(pages, tf) ==
    IF pages = <<>> THEN [ok |-> TRUE, items |-> <<>>]
    ELSE LET h == Transform(tf, Head(pages))
             t == TransformAll(Tail(pages), tf)
         IN  IF h.ok /\ t.ok
             THEN [ok |-> TRUE, items |-> h.items \o t.items]
             ELSE [ok |-> FALSE, items |-> <<>>]

\* A framing that leaves the last item without its newline.
RECURSIVE NdjsonFrame_unterminated(_)
NdjsonFrame_unterminated(items) ==
    IF items = <<>> THEN <<>>
    ELSE IF Len(items) = 1 THEN Head(items)
    ELSE Head(items) \o <<"\n">> \o NdjsonFrame_unterminated(Tail(items))

RECURSIVE NdjsonFrame(_)
NdjsonFrame(items) ==
    IF items = <<>> THEN <<>>
    ELSE Head(items) \o <<"\n">> \o NdjsonFrame(Tail(items))

\* A composer that frames whatever was transformed and reports success.
NdjsonComposer_partial(pages, tf) ==
    [ok |-> TRUE, payload |-> NdjsonFrame(TransformAll(pages, tf).items)]

NdjsonComposer(pages, tf) ==
    LET t == TransformAll(pages, tf)
    IN  IF t.ok THEN [ok |-> TRUE, payload |-> NdjsonFrame(t.items)]
        ELSE [ok |-> FALSE, payload |-> <<>>]

\* A join that also puts a comma after the last item.
RECURSIVE CommaJoin_trailing(_)
CommaJoin_trailing(items) ==
    IF items = <<>> THEN <<>>
    ELSE Head(items) \o <<",">> \o CommaJoin_trailing(Tail(items))

RECURSIVE CommaJoin(_)
CommaJoin(items) ==
    IF items = <<>> THEN <<>>
    ELSE IF Len(items) = 1 THEN Head(items)
    ELSE Head(items) \o <<",">> \o CommaJoin(Tail(items))

JsonArrayComposer(pages, tf) ==
    LET t == TransformAll(pages, tf)
    IN  IF t.ok THEN [ok |-> TRUE, payload |-> <<"[">> \o CommaJoin(t.items) \o <<"]">>]
        ELSE [ok |-> FALSE, payload |-> <<>>]

compose(composer, pages, tf) ==
    IF composer = "Ndjson" THEN NdjsonComposer(pages, tf)
    ELSE JsonArrayComposer(pages, tf)


(***************************************************************************)
(* Sink I/O outcomes: a file write or flush can fail, the in-memory push   *)
(* cannot; a bulk request gets a response with a status, or none at all    *)
(* (status 0: the request failed in transport).                            *)
(***************************************************************************)
HttpStatuses == { 200, 201, 404, 500 }

\* StatusCode::is_success
is_success(status) == status >= 200 /\ status < 300

HttpOutcomes ==
    { [ok |-> is_success(st), status |-> st] : st \in HttpStatuses }
    \cup { [ok |-> FALSE, status |-> 0] }

SendOutcomes(sink) ==
    IF sink.kind = "InMemory" THEN { [ok |-> TRUE, status |-> 0] }
    ELSE IF sink.kind = "File"
         THEN { [ok |-> TRUE, status |-> 0], [ok |-> FALSE, status |-> 0] }
    ELSE HttpOutcomes

CloseOutcomes(sink) == IF sink.kind = "File" THEN {TRUE, FALSE} ELSE {TRUE}

(***************************************************************************)
(* FileSink: a BufWriter over a file handle opened with File::create.      *)
(***************************************************************************)
\* write(2) of `data` at byte offset `pos` of `file`.
WriteAt(file, pos, data) ==
    LET end == pos + Len(data)
        len == IF end > Len(file) THEN end ELSE Len(file)
    IN  [i \in 1..len |-> IF i > pos /\ i <= end THEN data[i - pos] ELSE file[i]]

NewBufWriter == [buf |-> <<>>, pos |-> 0]

\* A flush that empties the buffer without writing it.
BufWriter_flush_nothing(bw, file) ==
    [file |-> file, bw |-> [buf |-> <<>>, pos |-> bw.pos]]

\* BufWriter::flush: the buffered bytes go to the file at the handle's offset.
BufWriter_flush(bw, file) ==
    [file |-> WriteAt(file, bw.pos, bw.buf),
     bw |-> [buf |-> <<>>, pos |-> bw.pos + Len(bw.buf)]]

\* A writer whose buffer holds the last payload only.
BufWriter_write_all_overwrite(bw, file, data) ==
    [file |-> file, bw |-> [buf |-> data, pos |-> bw.pos]]

\* BufWriter::write_all: flush first when the bytes do not fit, write through
\* when they are as large as the buffer, buffer them otherwise.
BufWriter_write_all(bw, file, data) ==
    LET f == IF Len(bw.buf) + Len(data) > BufWriter_capacity
             THEN BufWriter_flush(bw, file)
             ELSE [file |-> file, bw |-> bw]
    IN  IF Len(data) >= BufWriter_capacity
        THEN [file |-> WriteAt(f.file, f.bw.pos, data),
              bw |-> [buf |-> <<>>, pos |-> f.bw.pos + Len(data)]]
        ELSE [file |-> f.file, bw |-> [buf |-> f.bw.buf \o data, pos |-> f.bw.pos]]

(***************************************************************************)
(* ElasticsearchSink.                                                      *)
(***************************************************************************)
RECURSIVE trim_end_matches(_, _)
trim_end_matches(str, ch) ==
    IF str # <<>> /\ str[Len(str)] = ch
    THEN trim_end_matches(SubSeq(str, 1, Len(str) - 1), ch)
    ELSE str

\* The Authorization of the index check and of a bulk request: the API key
\* when there is one, else basic auth when there is a username, else none.
\* Basic auth wins over the API key.
Authorization_basic_first(config) ==
    IF config.username # None
    THEN Some([scheme |-> "Basic",
               credentials |-> <<config.username[1]>> \o config.password])
    ELSE IF config.api_key # None
         THEN Some([scheme |-> "ApiKey", credentials |-> <<config.api_key[1]>>])
    ELSE None

Authorization(config) ==
    IF config.api_key # None
    THEN Some([scheme |-> "ApiKey", credentials |-> <<config.api_key[1]>>])
    ELSE IF config.username # None
         THEN Some([scheme |-> "Basic",
                    credentials |-> <<config.username[1]>> \o config.password])
    ELSE None

\* An HTTP request as it went out, with the status of the response it got
\* (0: none).
HttpExchange(method, url, content_type, authorization, body, outcome) ==
    [method |-> method, url |-> url, content_type |-> content_type,
     authorization |-> authorization, body |-> body, status |-> outcome.status]

BulkUrl(config) == trim_end_matches(config.url, "/") \o <<"/", "_bulk">>
IndexUrl(config) == trim_end_matches(config.url, "/") \o <<"/">> \o config.index

\* A client that sends the bulk request again when the first attempt fails.
submit_bulk_request_retrying(config, request_body, outcome) ==
    LET exchange == HttpExchange("POST", BulkUrl(config), "application/x-ndjson",
                                 Authorization(config), request_body, outcome)
    IN  [ok |-> outcome.ok,
         requests |-> IF outcome.ok THEN <<exchange>> ELSE <<exchange, exchange>>]

\* submit_bulk_request: one POST to {url}/_bulk; Ok on a 2xx response.
submit_bulk_request(config, request_body, outcome) ==
    LET exchange == HttpExchange("POST", BulkUrl(config), "application/x-ndjson",
                                 Authorization(config), request_body, outcome)
    IN  [ok |-> outcome.ok, requests |-> <<exchange>>]

\* A constructor that does not look at the status of the index check.
ElasticsearchSink_new_any_status(config, ping, check) ==
    LET ping_exchange ==
            HttpExchange("GET", config.url, "",
                Some([scheme |-> "Basic",
                      credentials |-> (IF config.username = None THEN <<"">>
                                       ELSE config.username) \o config.password]),
                <<>>, ping)
        check_exchange ==
            HttpExchange("GET", IndexUrl(config), "", Authorization(config), <<>>, check)
    IN  IF ping.status = 0
        THEN [ok |-> FALSE, cause |-> "ping", names |-> <<>>,
              requests |-> <<ping_exchange>>]
        ELSE IF config.index = None
        THEN [ok |-> TRUE, cause |-> "", names |-> <<>>, requests |-> <<ping_exchange>>]
        ELSE IF check.status = 0
        THEN [ok |-> FALSE, cause |-> "index_check_request", names |-> <<>>,
              requests |-> <<ping_exchange, check_exchange>>]
        ELSE [ok |-> TRUE, cause |-> "", names |-> <<>>,
              requests |-> <<ping_exchange, check_exchange>>]

\* ElasticsearchSink::new: a GET of the base url whose status is not looked at,
\* then, when an index is configured, a GET of {url}/{index} that must be
\* answered with a 2xx status; the error of a non-2xx answer names the index url.
ElasticsearchSink_new(config, ping, check) ==
    LET ping_exchange ==
            HttpExchange("GET", config.url, "",
                Some([scheme |-> "Basic",
                      credentials |-> (IF config.username = None THEN <<"">>
                                       ELSE config.username) \o config.password]),
                <<>>, ping)
        check_exchange ==
            HttpExchange("GET", IndexUrl(config), "", Authorization(config), <<>>, check)
    IN  IF ping.status = 0
        THEN [ok |-> FALSE, cause |-> "ping", names |-> <<>>,
              requests |-> <<ping_exchange>>]
        ELSE IF config.index = None
        THEN [ok |-> TRUE, cause |-> "", names |-> <<>>, requests |-> <<ping_exchange>>]
        ELSE IF check.status = 0
        THEN [ok |-> FALSE, cause |-> "index_check_request", names |-> <<>>,
              requests |-> <<ping_exchange, check_exchange>>]
        ELSE IF ~is_success(check.status)
        THEN [ok |-> FALSE, cause |-> "index_missing", names |-> IndexUrl(config),
              requests |-> <<ping_exchange, check_exchange>>]
        ELSE [ok |-> TRUE, cause |-> "", names |-> <<>>,
              requests |-> <<ping_exchange, check_exchange>>]

(***************************************************************************)
(* Helpers of the workers.                                                 *)
(***************************************************************************)
\* A buffer that hands the composer the first byte of every page only.
PageBytes_first_byte_only(buf) == [i \in 1..Len(buf) |-> SubSeq(buf[i].bytes, 1, 1)]

PageBytes(buf) == [i \in 1..Len(buf) |-> buf[i].bytes]
PageIds(buf) == [i \in 1..Len(buf) |-> buf[i].id]

\* A channel that never makes the sender wait.
HasCapacity_unbounded(q, cap) == TRUE

\* Sender::send completes only while the queue holds fewer than `cap` pages.
HasCapacity(q, cap) == Len(q) < cap

\* A receiver that takes the newest page instead of the oldest.
RecvFrom_newest_first(q) == [page |-> q[Len(q)], rest |-> SubSeq(q, 1, Len(q) - 1)]

\* A channel that hands out the oldest page and leaves it queued.
RecvFrom_leaves_queued(q) == [page |-> Head(q), rest |-> q]

\* Receiver::recv takes the page at the head of the queue.
RecvFrom(q) == [page |-> Head(q), rest |-> Tail(q)]

\* A buffer that keeps only the page just received.
BufferPush_overwrite(buf, page) == <<page>>

\* A buffer that grows at the front.
BufferPush_prepend(buf, page) == <<page>> \o buf

\* buffer.push(page)
BufferPush(buf, page) == Append(buf, page)

\* A worker that flushes after every page.
ShouldFlush_every_page(bytes, max) == TRUE

\* A threshold test that flushes only strictly above the limit.
ShouldFlush_strictly_above(bytes, max) == bytes + BUFFER_EPSILON_BYTES > max

\* buffer_bytes + BUFFER_EPSILON_BYTES >= self.max_request_size_bytes
ShouldFlush(bytes, max) == bytes + BUFFER_EPSILON_BYTES >= max

\* A flush that sends whatever was composed.
WorthSending_always(payload) == TRUE

\* !payload.is_empty() && payload != "[]"
WorthSending(payload) == payload # <<>> /\ payload # << "[", "]" >>

\* A shutdown that closes the sink without looking at the buffer.
AfterChannelClosed_skip_flush(buf) == "close"

\* On channel closed: a final flush when the buffer is non-empty, then close.
AfterChannelClosed(buf) == IF buf # <<>> THEN "final_flush" ELSE "close"

RECURSIVE FirstError(_)
FirstError(results) ==
    IF results = <<>> THEN "ok"
    ELSE IF Head(results) # "ok" THEN Head(results)
    ELSE FirstError(Tail(results))

(***************************************************************************)
(* FileSource (and S3RallySource, whose next_page is the same loop over    *)
(* the object's byte stream).                                              *)
(***************************************************************************)
\* read_line: the bytes up to and including the next "\n", or up to EOF.
read_line(content, pos) ==
    LET nl == { i \in (pos + 1)..Len(content) : content[i] = "\n" }
    IN  IF nl = {} THEN SubSeq(content, pos + 1, Len(content))
        ELSE SubSeq(content, pos + 1, CHOOSE i \in nl : \A j \in nl : i <= j)

\* The body of `for _ in 0..=max_batch_size_docs`, with `iterations` rounds left.
RECURSIVE next_page_loop(_, _, _, _, _, _, _)
next_page_loop(content, pos, config, page, total_bytes_read, line_count, iterations) ==
    LET line == read_line(content, pos)
        bytes_read == Len(line)
        total == total_bytes_read + bytes_read
        trimmed == trim_end_matches(trim_end_matches(line, "\n"), "\r")
        page2 == IF trimmed # <<>>
                 THEN (IF page # <<>> THEN page \o <<"\n">> ELSE page) \o trimmed
                 ELSE page
        count2 == IF trimmed # <<>> THEN line_count + 1 ELSE line_count
    IN  IF iterations = 0 \/ bytes_read = 0
        THEN [page |-> page, pos |-> pos]
        ELSE IF total > config.max_batch_size_bytes \/ count2 >= config.max_batch_size_docs
        THEN [page |-> page2, pos |-> pos + bytes_read]
        ELSE next_page_loop(content, pos + bytes_read, config, page2, total, count2,
                            iterations - 1)

\* FileSource::next_page: None when the page is empty.
next_page(content, pos, config) ==
    LET r == next_page_loop(content, pos, config, <<>>, 0, 0,
                            config.max_batch_size_docs + 1)
    IN  [page |-> IF r.page = <<>> THEN None ELSE Some(r.page), pos |-> r.pos]

\* The pages the SourceWorker gets from the file: every page up to the
\* first None.
RECURSIVE FilePages(_, _, _)
FilePages(content, pos, config) ==
    LET r == next_page(content, pos, config)
    IN  IF r.page = None THEN <<>>
        ELSE <<r.page[1]>> \o FilePages(content, r.pos, config)

(***************************************************************************)
(* Init: the state after Supervisor::start_workers has spawned the N sink  *)
(* workers and the source worker.  The supervisor keeps its own tx and rx. *)
(***************************************************************************)
TasksSpawned ==
    /\ cursor = 0
    /\ src_pc = "next_page"
    /\ src_page = NoPage
    /\ chan = <<>>
    /\ chan_closed = FALSE
    /\ sender_count = 2
    /\ receiver_count = app_config.sink_parallelism + 1
    /\ pc = [w \in SinkWorkers |-> "recv"]
    /\ buffer = [w \in SinkWorkers |-> <<>>]
    /\ buffer_bytes = [w \in SinkWorkers |-> 0]
    /\ received = [w \in SinkWorkers |-> <<>>]
    /\ sink_log = [w \in SinkWorkers |-> <<>>]
    /\ result = [h \in Handles |-> "running"]
    /\ sup_pc = "joining"
    /\ sup_result = "none"

\* The state in which the pipeline starts: run() has built the backends and
\* resolved the transformer, and start_workers has spawned the tasks.
WorkersStarted ==
    /\ TasksSpawned
    /\ transformer = from_configs(app_config.source_config, app_config.sink_config)
    /\ sink_file = <<>>
    /\ buf_writer = [w \in SinkWorkers |-> NewBufWriter]
    /\ http_log = <<>>
    /\ sink_backends = app_config.sink_parallelism
    /\ run_pc = "workers_started"
    /\ run_result = NoResult

\* The state before Supervisor::start_workers: no channel, no task.
NoWorkers ==
    /\ script = <<>>
    /\ cursor = 0
    /\ src_pc = "not_started"
    /\ src_page = NoPage
    /\ chan = <<>>
    /\ chan_closed = FALSE
    /\ sender_count = 0
    /\ receiver_count = 0
    /\ pc = <<>>
    /\ buffer = <<>>
    /\ buffer_bytes = <<>>
    /\ received = <<>>
    /\ sink_log = <<>>
    /\ result = <<>>
    /\ sup_pc = "not_started"
    /\ sup_result = "none"

Init ==
    /\ NoCallMade
    /\ app_config \in AppConfigs
    /\ script \in Scripts
    /\ file_source = NoFileSource
    /\ WorkersStarted

(***************************************************************************)
(* Handle bookkeeping of async_channel: dropping the last Sender or the    *)
(* last Receiver closes the channel.                                       *)
(***************************************************************************)
DropSender ==
    /\ sender_count' = sender_count - 1
    /\ chan_closed' = (chan_closed \/ sender_count = 1)

DropReceiver ==
    /\ receiver_count' = receiver_count - 1
    /\ chan_closed' = (chan_closed \/ receiver_count = 1)

(***************************************************************************)
(* SourceWorker::start.                                                    *)
(***************************************************************************)
\* source.next_page() failed: the `?` returns the error, the task's Sender drops.
SourceNextPageErr ==
    /\ src_pc = "next_page"
    /\ src_pc' = "done"
    /\ result' = [result EXCEPT ![SourceHandle] = "err_next_page"]
    /\ DropSender
    /\ UNCHANGED << backend_vars, setup_vars, call_vars >>
    /\ UNCHANGED << app_config, script, cursor, src_page, chan, receiver_count,
                    pc, buffer, buffer_bytes, received, sink_log, sup_pc, sup_result >>

\* source.next_page() returned Some(page).
SourceNextPageSome ==
    /\ src_pc = "next_page"
    /\ cursor < Len(script)
    /\ cursor' = cursor + 1
    /\ src_page' = [id |-> cursor + 1, bytes |-> script[cursor + 1]]
    /\ src_pc' = "send"
    /\ UNCHANGED << backend_vars, setup_vars, call_vars >>
    /\ UNCHANGED << app_config, script, chan, chan_closed, sender_count,
                    receiver_count, pc, buffer, buffer_bytes, received, sink_log,
                    result, sup_pc, sup_result >>

\* A source worker that leaves the loop at end-of-stream without tx.close().
SourceNextPageNone_no_close ==
    /\ src_pc = "next_page"
    /\ cursor = Len(script)
    /\ src_pc' = "done"
    /\ result' = [result EXCEPT ![SourceHandle] = "ok"]
    /\ DropSender
    /\ UNCHANGED << backend_vars, setup_vars, call_vars >>
    /\ UNCHANGED << app_config, script, cursor, src_page, chan, receiver_count,
                    pc, buffer, buffer_bytes, received, sink_log, sup_pc, sup_result >>

\* A source worker that closes the channel at end-of-stream and polls again.
SourceNextPageNone_polls_again ==
    /\ src_pc = "next_page"
    /\ cursor = Len(script)
    /\ ~chan_closed
    /\ src_pc' = "next_page"
    /\ chan_closed' = TRUE
    /\ UNCHANGED << backend_vars, setup_vars, call_vars >>
    /\ UNCHANGED << app_config, script, cursor, src_page, chan, sender_count,
                    receiver_count, result, pc, buffer, buffer_bytes, received,
                    sink_log, sup_pc, sup_result >>

\* A close at end-of-stream that throws the queued pages away.
SourceNextPageNone_discards_queue ==
    /\ src_pc = "next_page"
    /\ cursor = Len(script)
    /\ src_pc' = "done"
    /\ result' = [result EXCEPT ![SourceHandle] = "ok"]
    /\ sender_count' = sender_count - 1
    /\ chan_closed' = TRUE
    /\ chan' = <<>>
    /\ UNCHANGED << backend_vars, setup_vars, call_vars >>
    /\ UNCHANGED << app_config, script, cursor, src_page, receiver_count,
                    pc, buffer, buffer_bytes, received, sink_log, sup_pc, sup_result >>

\* source.next_page() returned None: tx.close(), break, Ok(()).
SourceNextPageNone ==
    /\ src_pc = "next_page"
    /\ cursor = Len(script)
    /\ src_pc' = "done"
    /\ result' = [result EXCEPT ![SourceHandle] = "ok"]
    /\ sender_count' = sender_count - 1
    /\ chan_closed' = TRUE
    /\ UNCHANGED << backend_vars, setup_vars, call_vars >>
    /\ UNCHANGED << app_config, script, cursor, src_page, chan, receiver_count,
                    pc, buffer, buffer_bytes, received, sink_log, sup_pc, sup_result >>

\* tx.send(page).await: completes when the queue has room, fails when the
\* channel is closed, and otherwise stays suspended.
SourceSend ==
    /\ src_pc = "send"
    /\ IF chan_closed
       THEN /\ src_pc' = "done"
            /\ result' = [result EXCEPT ![SourceHandle] = "err_channel_send"]
            /\ DropSender
            /\ UNCHANGED << chan, src_page >>
       ELSE /\ HasCapacity(chan, app_config.queue_capacity)
            /\ chan' = Append(chan, src_page)
            /\ src_page' = NoPage
            /\ src_pc' = "next_page"
            /\ UNCHANGED << result, sender_count, chan_closed >>
    /\ UNCHANGED << backend_vars, setup_vars, call_vars >>
    /\ UNCHANGED << app_config, script, cursor, receiver_count, pc, buffer,
                    buffer_bytes, received, sink_log, sup_pc, sup_result >>

(***************************************************************************)
(* SinkWorker::start.                                                      *)
(***************************************************************************)
\* rx.recv().await returned Ok(page): buffer it, then test the threshold.
SinkRecvPage(w) ==
    /\ pc[w] = "recv"
    /\ chan # <<>>
    /\ LET page == RecvFrom(chan).page
           bytes == buffer_bytes[w] + Len(page.bytes)
       IN  /\ chan' = RecvFrom(chan).rest
           /\ buffer_bytes' = [buffer_bytes EXCEPT ![w] = bytes]
           /\ buffer' = [buffer EXCEPT ![w] = BufferPush(buffer[w], page)]
           /\ received' = [received EXCEPT ![w] = Append(received[w], page.id)]
           /\ pc' = [pc EXCEPT ![w] =
                       IF ShouldFlush(bytes, max_request_size_bytes(app_config.sink_config))
                       THEN "flush" ELSE "recv"]
    /\ UNCHANGED << backend_vars, setup_vars, call_vars >>
    /\ UNCHANGED << app_config, script, cursor, src_pc, src_page, chan_closed,
                    sender_count, receiver_count, sink_log, result, sup_pc,
                    sup_result >>

\* rx.recv().await returned Err: the channel is closed and drained.
SinkRecvClosed(w) ==
    /\ pc[w] = "recv"
    /\ chan = <<>>
    /\ chan_closed
    /\ pc' = [pc EXCEPT ![w] = AfterChannelClosed(buffer[w])]
    /\ UNCHANGED << backend_vars, setup_vars, call_vars >>
    /\ UNCHANGED << app_config, script, cursor, src_pc, src_page, chan,
                    chan_closed, sender_count, receiver_count, buffer,
                    buffer_bytes, received, sink_log, result, sup_pc, sup_result >>

\* The worker's task ends with an error: its Receiver and its Sink drop.
SinkFails(w, err) ==
    /\ pc' = [pc EXCEPT ![w] = "done"]
    /\ result' = [result EXCEPT ![w] = err]
    /\ DropReceiver

\* Sink::send on the backend of worker w, with the outcome the world gives it.
SinkSend(w, payload, outcome) ==
    LET sink == app_config.sink_config
    IN  /\ IF sink.kind = "File" /\ outcome.ok
           THEN LET r == BufWriter_write_all(buf_writer[w], sink_file, payload)
                IN  /\ sink_file' = r.file
                    /\ buf_writer' = [buf_writer EXCEPT ![w] = r.bw]
           ELSE UNCHANGED << sink_file, buf_writer >>
        /\ IF sink.kind = "Elasticsearch"
           THEN http_log' = http_log \o submit_bulk_request(sink, payload, outcome).requests
           ELSE UNCHANGED http_log

\* flush_buffer: compose, send unless the payload is empty or "[]", clear.
SinkFlush(w) ==
    /\ pc[w] \in {"flush", "final_flush"}
    /\ LET composed == compose(from_sink_config(app_config.sink_config),
                               PageBytes(buffer[w]), transformer)
           next == IF pc[w] = "flush" THEN "recv" ELSE "close"
       IN  IF ~composed.ok
           THEN /\ SinkFails(w, "err_compose")
                /\ UNCHANGED << buffer, buffer_bytes, sink_log, backend_vars >>
           ELSE IF WorthSending(composed.payload)
           THEN \E outcome \in SendOutcomes(app_config.sink_config) :
                    /\ SinkSend(w, composed.payload, outcome)
                    /\ sink_log' = [sink_log EXCEPT ![w] = Append(sink_log[w],
                            [op |-> "send", ok |-> outcome.ok,
                             payload |-> composed.payload,
                             pages |-> PageIds(buffer[w])])]
                    /\ IF outcome.ok
                       THEN /\ buffer' = [buffer EXCEPT ![w] = <<>>]
                            /\ buffer_bytes' = [buffer_bytes EXCEPT ![w] = 0]
                            /\ pc' = [pc EXCEPT ![w] = next]
                            /\ UNCHANGED << result, receiver_count, chan_closed >>
                       ELSE /\ SinkFails(w, "err_send")
                            /\ UNCHANGED << buffer, buffer_bytes >>
           ELSE /\ buffer' = [buffer EXCEPT ![w] = <<>>]
                /\ buffer_bytes' = [buffer_bytes EXCEPT ![w] = 0]
                /\ pc' = [pc EXCEPT ![w] = next]
                /\ UNCHANGED << result, receiver_count, chan_closed, sink_log,
                                backend_vars >>
    /\ UNCHANGED << setup_vars, call_vars >>
    /\ UNCHANGED << app_config, script, cursor, src_pc, src_page, chan,
                    sender_count, received, sup_pc, sup_result >>

\* self.sink.close().await, then return.
SinkClose(w) ==
    /\ pc[w] = "close"
    /\ \E closed_ok \in CloseOutcomes(app_config.sink_config) :
        /\ IF app_config.sink_config.kind = "File" /\ closed_ok
           THEN LET r == BufWriter_flush(buf_writer[w], sink_file)
                IN  /\ sink_file' = r.file
                    /\ buf_writer' = [buf_writer EXCEPT ![w] = r.bw]
           ELSE UNCHANGED << sink_file, buf_writer >>
        /\ UNCHANGED http_log
        /\ sink_log' = [sink_log EXCEPT ![w] = Append(sink_log[w],
                [op |-> "close", ok |-> closed_ok, payload |-> <<>>, pages |-> <<>>])]
        /\ pc' = [pc EXCEPT ![w] = "done"]
        /\ result' = [result EXCEPT ![w] = IF closed_ok THEN "ok" ELSE "err_close"]
    /\ DropReceiver
    /\ UNCHANGED << setup_vars, call_vars >>
    /\ UNCHANGED << app_config, script, cursor, src_pc, src_page, chan,
                    sender_count, buffer, buffer_bytes, received, sup_pc,
                    sup_result >>

(***************************************************************************)
(* Supervisor::start_workers: join_all, then the first error in handle     *)
(* order (sink workers first, the source worker last), or Ok.              *)
(***************************************************************************)
\* A supervisor that looks at the first task's result only.
SupervisorResult_first_only(results) == Head(results)

\* for result in results { result??; } Ok(())
SupervisorResult(results) == FirstError(results)

SupervisorJoin ==
    /\ sup_pc = "joining"
    /\ \A h \in Handles : result[h] # "running"
    /\ sup_pc' = "returned"
    /\ sup_result' = SupervisorResult([h \in Handles |-> result[h]])
    /\ sender_count' = sender_count - 1
    /\ receiver_count' = receiver_count - 1
    /\ chan_closed' = TRUE
    /\ UNCHANGED << backend_vars, setup_vars, call_vars >>
    /\ UNCHANGED << app_config, script, cursor, src_pc, src_page, chan, pc,
                    buffer, buffer_bytes, received, sink_log, result >>

(***************************************************************************)
(* A FileSource polled on its own: next_page called until it returns None  *)
(* or fails.                                                               *)
(***************************************************************************)
FileSourceConfigs ==
    { [kind |-> "File", max_batch_size_docs |-> d, max_batch_size_bytes |-> b] :
        d \in 0..MaxBatchDocs, b \in BatchBytesSet }

DefaultFileSink ==
    [kind |-> "File",
     max_request_size_bytes |-> CommonSinkConfig_default_max_request_size_bytes]

InitFileSource ==
    /\ NoCallMade
    /\ app_config \in
            { [queue_capacity |-> 1, sink_parallelism |-> 1,
               source_config |-> c, sink_config |-> DefaultFileSink] :
                c \in FileSourceConfigs }
    /\ file_source \in
            { [content |-> f, pos |-> 0, returned |-> <<>>] : f \in FileContents }
    /\ NoWorkers
    /\ transformer = from_configs(app_config.source_config, app_config.sink_config)
    /\ sink_file = <<>>
    /\ buf_writer = <<>>
    /\ http_log = <<>>
    /\ sink_backends = 0
    /\ run_pc = "source_built"
    /\ run_result = NoResult

\* The caller polls while the last result is Ok(Some(page)).
FileSourcePollable ==
    LET n == Len(file_source.returned)
    IN  /\ run_pc = "source_built"
        /\ n > 0 => (file_source.returned[n].ok /\ file_source.returned[n].page # None)

\* next_page() returned Ok(Some(page)) or Ok(None).
FileSourceNextPage ==
    /\ FileSourcePollable
    /\ LET r == next_page(file_source.content, file_source.pos, app_config.source_config)
       IN  file_source' = [file_source EXCEPT
                !.pos = r.pos,
                !.returned = Append(@, [ok |-> TRUE, page |-> r.page])]
    /\ UNCHANGED << app_config, worker_vars, backend_vars, transformer,
                    sink_backends, run_pc, run_result >>
    /\ UNCHANGED call_vars

\* read_line failed: next_page() returned Err.
FileSourceNextPageErr ==
    /\ FileSourcePollable
    /\ file_source' = [file_source EXCEPT
            !.returned = Append(@, [ok |-> FALSE, page |-> None])]
    /\ UNCHANGED << app_config, worker_vars, backend_vars, transformer,
                    sink_backends, run_pc, run_result >>
    /\ UNCHANGED call_vars

FileSourceNext ==
    \/ FileSourceNextPage
    \/ FileSourceNextPageErr

FileSourceSpec == InitFileSource /\ [][FileSourceNext]_vars

(***************************************************************************)
(* The pipeline between a File source and a File sink.                     *)
(***************************************************************************)
FileToFileConfigs ==
    { [queue_capacity |-> q, sink_parallelism |-> n,
       source_config |-> c, sink_config |-> k] :
        q \in 1..MaxQueueCapacity, n \in 1..MaxSinkParallelism,
        c \in { x \in FileSourceConfigs : x.max_batch_size_bytes # 1 },
        k \in { x \in SinkConfigs : x.kind = "File" } }

InitFileToFile ==
    /\ NoCallMade
    /\ app_config \in FileToFileConfigs
    /\ file_source \in
            { [content |-> f, pos |-> 0, returned |-> <<>>] : f \in FileSet }
    /\ script = FilePages(file_source.content, 0, app_config.source_config)
    /\ WorkersStarted

(***************************************************************************)
(* run(): the source backend, one sink backend per SinkWorker, the         *)
(* transformer of the (source, sink) pair, then start_workers.             *)
(***************************************************************************)
EsUrls == { <<"http://es">>, <<"http://es", "/">> }

ElasticsearchSinkConfigs ==
    { [kind |-> "Elasticsearch",
       max_request_size_bytes |-> CommonSinkConfig_default_max_request_size_bytes,
       url |-> u, index |-> i, username |-> n,
       password |-> IF n = None THEN None ELSE Some("p"), api_key |-> k] :
        u \in EsUrls, i \in { None, Some("logs") },
        n \in { None, Some("u") }, k \in { None, Some("k") } }

StartupConfigs ==
    [ source_config : { [kind |-> k] : k \in SourceKinds },
      sink_config : { DefaultFileSink, [kind |-> "InMemory", max_request_size_bytes |-> 0] }
                    \cup ElasticsearchSinkConfigs,
      queue_capacity : { 1 },
      sink_parallelism : 1..MaxSinkParallelism ]

\* What the sink file holds before the run.
OldSinkFiles == { <<>>, <<"o", "l", "d">> }

InitStartup ==
    /\ NoCallMade
    /\ app_config \in StartupConfigs
    /\ NoWorkers
    /\ file_source = NoFileSource
    /\ transformer = "none"
    /\ sink_file \in OldSinkFiles
    /\ buf_writer = <<>>
    /\ http_log = <<>>
    /\ sink_backends = 0
    /\ run_pc = "from_source_config"
    /\ run_result = NoResult

\* `?` on a failed step: run() returns the error with its context.
RunReturnsErr(context, names) ==
    /\ run_pc' = "returned"
    /\ run_result' = [status |-> "err", context |-> context, names |-> names]

\* from_source_config: the in-memory source cannot fail, the others can.
RunFromSourceConfig ==
    /\ run_pc = "from_source_config"
    /\ \E ok \in IF app_config.source_config.kind = "InMemory" THEN { TRUE }
                  ELSE { TRUE, FALSE } :
          IF ok THEN run_pc' = "from_sink_config" /\ UNCHANGED run_result
          ELSE RunReturnsErr("Failed to create source backend", <<>>)
    /\ UNCHANGED << app_config, worker_vars, backend_vars, transformer, file_source,
                    sink_backends >>
    /\ UNCHANGED call_vars

\* One turn of the loop over 0..sink_parallelism: from_sink_config builds one
\* more sink backend. FileSink::new creates (truncates) the file;
\* ElasticsearchSink::new does its preflight requests.
RunFromSinkConfig ==
    /\ run_pc = "from_sink_config"
    /\ sink_backends < app_config.sink_parallelism
    /\ LET sink == app_config.sink_config
           Built == /\ sink_backends' = sink_backends + 1
                    /\ buf_writer' = Append(buf_writer, NewBufWriter)
                    /\ UNCHANGED << run_pc, run_result >>
           Failed_(names) ==
                    /\ RunReturnsErr("Failed to create sink backend", names)
                    /\ UNCHANGED << sink_backends, buf_writer >>
       IN  CASE sink.kind = "InMemory" ->
                    Built /\ UNCHANGED << sink_file, http_log >>
             [] sink.kind = "File" ->
                    \E created \in { TRUE, FALSE } :
                        IF created
                        THEN Built /\ sink_file' = <<>> /\ UNCHANGED http_log
                        ELSE Failed_(<<>>) /\ UNCHANGED << sink_file, http_log >>
             [] sink.kind = "Elasticsearch" ->
                    \E ping \in HttpOutcomes, check \in HttpOutcomes :
                        LET new == ElasticsearchSink_new(sink, ping, check)
                        IN  /\ http_log' = http_log \o new.requests
                            /\ IF new.ok THEN Built ELSE Failed_(new.names)
                            /\ UNCHANGED sink_file
    /\ UNCHANGED << app_config, worker_vars, transformer, file_source >>
    /\ UNCHANGED call_vars

\* DocumentTransformer::from_configs once every sink backend is built; its
\* last arm panics.
RunFromConfigs ==
    /\ run_pc = "from_sink_config"
    /\ sink_backends = app_config.sink_parallelism
    /\ transformer' = from_configs(app_config.source_config, app_config.sink_config)
    /\ IF transformer' = "panic"
       THEN run_pc' = "panicked" /\ run_result' = [NoResult EXCEPT !.status = "panic"]
       ELSE run_pc' = "start_workers" /\ UNCHANGED run_result
    /\ UNCHANGED << app_config, worker_vars, backend_vars, file_source, sink_backends >>
    /\ UNCHANGED call_vars

\* Supervisor::start_workers: the channel is created and the tasks are
\* spawned. async_channel::bounded panics on a capacity of zero.
RunStartWorkers ==
    /\ run_pc = "start_workers"
    /\ IF app_config.queue_capacity = 0
       THEN /\ run_pc' = "panicked"
            /\ run_result' = [NoResult EXCEPT !.status = "panic"]
            /\ UNCHANGED << cursor, src_pc, src_page, chan, chan_closed,
                            sender_count, receiver_count, pc, buffer, buffer_bytes,
                            received, sink_log, result, sup_pc, sup_result >>
       ELSE /\ run_pc' = "workers_started"
            /\ cursor' = 0
            /\ src_pc' = "next_page"
            /\ src_page' = NoPage
            /\ chan' = <<>>
            /\ chan_closed' = FALSE
            /\ sender_count' = 2
            /\ receiver_count' = app_config.sink_parallelism + 1
            /\ pc' = [w \in SinkWorkers |-> "recv"]
            /\ buffer' = [w \in SinkWorkers |-> <<>>]
            /\ buffer_bytes' = [w \in SinkWorkers |-> 0]
            /\ received' = [w \in SinkWorkers |-> <<>>]
            /\ sink_log' = [w \in SinkWorkers |-> <<>>]
            /\ result' = [h \in Handles |-> "running"]
            /\ sup_pc' = "joining"
            /\ sup_result' = "none"
            /\ UNCHANGED run_result
    /\ UNCHANGED << app_config, script, backend_vars, transformer, file_source,
                    sink_backends >>
    /\ UNCHANGED call_vars

StartupNext ==
    \/ RunFromSourceConfig
    \/ RunFromSinkConfig
    \/ RunFromConfigs
    \/ RunStartWorkers

StartupSpec == InitStartup /\ [][StartupNext]_vars

(***************************************************************************)
(* run() on every RuntimeConfig the deserializer accepts: queue_capacity   *)
(* and sink_parallelism are usize fields without a lower bound.            *)
(***************************************************************************)
RuntimeConfigs ==
    { [source_config |-> [kind |-> k.kind], sink_config |-> k,
       queue_capacity |-> q, sink_parallelism |-> n] :
        k \in { DefaultFileSink, [kind |-> "InMemory", max_request_size_bytes |-> 0] },
        q \in 0..MaxQueueCapacity, n \in 0..MaxSinkParallelism }

InitRuntime ==
    /\ NoCallMade
    /\ app_config \in RuntimeConfigs
    /\ NoWorkers
    /\ file_source = NoFileSource
    /\ transformer = "none"
    /\ sink_file \in OldSinkFiles
    /\ buf_writer = <<>>
    /\ http_log = <<>>
    /\ sink_backends = 0
    /\ run_pc = "from_source_config"
    /\ run_result = NoResult

RuntimeSpec == InitRuntime /\ [][StartupNext]_vars

(***************************************************************************)
(* A File source of Rally documents in front of an Elasticsearch sink.     *)
(***************************************************************************)
\* Pages of Rally documents, a page that is already in the bulk format (an
\* action line and a source line), and a page whose line is not JSON.
RallyPageSet ==
    { << "{", "}" >>,
      << "{", "\"", "i", "n", "d", "e", "x", "\"", ":", "{", "}", "}", "\n", "{", "}" >>,
      << "{", "\"", "O", "b", "j", "e", "c", "t", "I", "D", "\"", ":", "1", "}", "\n", "{", "}" >>,
      << "x" >> }

BulkScripts == UNION { [1..n -> RallyPageSet] : n \in 0..MaxPages }

BulkSinkConfigs ==
    { [c EXCEPT !.max_request_size_bytes = m] :
        c \in { x \in ElasticsearchSinkConfigs :
                    /\ x.index # None
                    /\ (x.api_key # None) = (x.url = << "http://es" >>)
                    /\ x.username # None },
        m \in { 1024, CommonSinkConfig_default_max_request_size_bytes } }
    \cup { x \in ElasticsearchSinkConfigs :
                /\ x.index # None
                /\ (x.api_key # None) = (x.url = << "http://es" >>)
                /\ x.username = None }

BulkConfigs ==
    { [queue_capacity |-> 1, sink_parallelism |-> n,
       source_config |-> ScriptedSourceConfig(k), sink_config |-> k] :
        n \in 1..MaxSinkParallelism, k \in BulkSinkConfigs }

InitBulk ==
    /\ NoCallMade
    /\ app_config \in BulkConfigs
    /\ script \in BulkScripts
    /\ file_source = NoFileSource
    /\ WorkersStarted

SourceStep ==
    \/ SourceNextPageErr
    \/ SourceNextPageSome
    \/ SourceNextPageNone
    \/ SourceSend

SinkStep(w) ==
    \/ SinkRecvPage(w)
    \/ SinkRecvClosed(w)
    \/ SinkFlush(w)
    \/ SinkClose(w)

Next ==
    \/ SourceNextPageErr
    \/ SourceNextPageSome
    \/ SourceNextPageNone
    \/ SourceSend
    \/ \E w \in SinkWorkers : SinkRecvPage(w)
    \/ \E w \in SinkWorkers : SinkRecvClosed(w)
    \/ \E w \in SinkWorkers : SinkFlush(w)
    \/ \E w \in SinkWorkers : SinkClose(w)
    \/ SupervisorJoin

Spec == Init /\ [][Next]_vars

FileToFileSpec == InitFileToFile /\ [][Next]_vars

BulkSpec == InitBulk /\ [][Next]_vars

(***************************************************************************)
(* A Source whose pages can be empty: next_page returns any String, and a  *)
(* page without items composes to "" (NDJSON) or to "[]" (JSON array).     *)
(***************************************************************************)
BlankPageSet == { <<>>, << "{", "}" >> }

BlankPageScripts == UNION { [1..n -> BlankPageSet] : n \in 0..MaxPages }

BlankPageConfigs ==
    { [queue_capacity |-> q, sink_parallelism |-> n,
       source_config |-> ScriptedSourceConfig(k), sink_config |-> k] :
        q \in 1..MaxQueueCapacity, n \in 1..MaxSinkParallelism,
        k \in { [kind |-> "InMemory", max_request_size_bytes |-> 0] } }
    \cup { c \in BulkConfigs : c.sink_config.username = None }

InitBlankPage ==
    /\ NoCallMade
    /\ app_config \in BlankPageConfigs
    /\ script \in BlankPageScripts
    /\ file_source = NoFileSource
    /\ WorkersStarted

BlankPageSpec == InitBlankPage /\ [][Next]_vars

(***************************************************************************)
(* The in-memory fixture: the InMemory source in front of the InMemory     *)
(* sink.                                                                   *)
(***************************************************************************)
\* InMemorySource::next_page: the one page it yields, four documents joined
\* by newlines.
the_sacred_page ==
    << "{", "\"", "d", "o", "c", "\"", ":", "1", "}", "\n",
       "{", "\"", "d", "o", "c", "\"", ":", "2", "}", "\n",
       "{", "\"", "d", "o", "c", "\"", ":", "3", "}", "\n",
       "{", "\"", "d", "o", "c", "\"", ":", "4", "}" >>

\* InMemory to InMemory, with the small channels and the channel of ten of
\* the fixture's own run.
InMemoryConfigs ==
    { [queue_capacity |-> q, sink_parallelism |-> n,
       source_config |-> [kind |-> "InMemory"],
       sink_config |-> [kind |-> "InMemory", max_request_size_bytes |-> 0]] :
        q \in (1..MaxQueueCapacity) \cup { 10 }, n \in 1..MaxSinkParallelism }

InitInMemory ==
    /\ NoCallMade
    /\ app_config \in InMemoryConfigs
    /\ script = << the_sacred_page >>
    /\ file_source = NoFileSource
    /\ WorkersStarted

\* The pipeline's steps without a failing next_page: InMemorySource's
\* next_page returns Ok(Some(page)) once and Ok(None) from then on.
InMemoryNext ==
    \/ SourceNextPageSome
    \/ SourceNextPageNone
    \/ SourceSend
    \/ \E w \in SinkWorkers : SinkRecvPage(w)
    \/ \E w \in SinkWorkers : SinkRecvClosed(w)
    \/ \E w \in SinkWorkers : SinkFlush(w)
    \/ \E w \in SinkWorkers : SinkClose(w)
    \/ SupervisorJoin

InMemorySpec == InitInMemory /\ [][InMemoryNext]_vars

(***************************************************************************)
(* The transforms and the composers called on their own: one call of       *)
(* Transform::transform, of Composer::compose or of build_es_action_line   *)
(* on arguments of the sets below.                                         *)
(***************************************************************************)
\* Pages: Rally documents with and without an ObjectID and with the metadata
\* fields at the top level and nested, blank lines, lines that are not JSON
\* before and after a document, and a page in the bulk format.
CallPageSet ==
    { << "{", "}" >>,
      << "{", "\"", "O", "b", "j", "e", "c", "t", "I", "D", "\"", ":", "1", "}",
         "\n", "{", "}" >>,
      << "x" >>,
      << "\n", "{", "}", "\n", "\n" >>,
      << "{", "\"", "i", "n", "d", "e", "x", "\"", ":", "{", "}", "}", "\n",
         "{", "}" >>,
      << "{", "}", "\n", "x" >>,
      << "x", "\n", "{", "}" >>,
      << "{", "\"", "O", "b", "j", "e", "c", "t", "I", "D", "\"", ":", "\"",
         "a", "\\", "\"", "b", "\"", "}" >>,
      << "{", "\"", "b", "\"", ":", "1", "}", "\n", "\n", "{", "\"", "O", "b",
         "j", "e", "c", "t", "I", "D", "\"", ":", "\"", "q", "\"", ",", "\"",
         "a", "\"", ":", "{", "\"", "_", "r", "e", "f", "\"", ":", "\"", "k",
         "\"", "}", "}", "\n" >>,
      << "{", "\"", "_", "r", "e", "f", "\"", ":", "1", ",", "\"", "_", "C",
         "r", "e", "a", "t", "e", "d", "A", "t", "\"", ":", "2", ",", "\"", "a",
         "\"", ":", "3", "}" >>,
      << "{", "\"", "_", "r", "a", "l", "l", "y", "A", "P", "I", "M", "a", "j",
         "o", "r", "\"", ":", "1", ",", "\"", "n", "\"", ":", "{", "\"", "_",
         "r", "a", "l", "l", "y", "A", "P", "I", "M", "a", "j", "o", "r", "\"",
         ":", "2", "}", ",", "\"", "a", "\"", ":", "3", "}" >>,
      << "{", "\"", "_", "r", "a", "l", "l", "y", "A", "P", "I", "M", "i", "n",
         "o", "r", "\"", ":", "1", ",", "\"", "n", "\"", ":", "{", "\"", "_",
         "r", "a", "l", "l", "y", "A", "P", "I", "M", "i", "n", "o", "r", "\"",
         ":", "2", "}", ",", "\"", "a", "\"", ":", "3", "}" >>,
      << "{", "\"", "_", "r", "e", "f", "\"", ":", "1", ",", "\"", "n", "\"",
         ":", "{", "\"", "_", "r", "e", "f", "\"", ":", "2", "}", ",", "\"",
         "a", "\"", ":", "3", "}" >>,
      << "{", "\"", "_", "r", "e", "f", "O", "b", "j", "e", "c", "t", "U", "U",
         "I", "D", "\"", ":", "1", ",", "\"", "n", "\"", ":", "{", "\"", "_",
         "r", "e", "f", "O", "b", "j", "e", "c", "t", "U", "U", "I", "D", "\"",
         ":", "2", "}", ",", "\"", "a", "\"", ":", "3", "}" >>,
      << "{", "\"", "_", "o", "b", "j", "e", "c", "t", "V", "e", "r", "s", "i",
         "o", "n", "\"", ":", "1", ",", "\"", "n", "\"", ":", "{", "\"", "_",
         "o", "b", "j", "e", "c", "t", "V", "e", "r", "s", "i", "o", "n", "\"",
         ":", "2", "}", ",", "\"", "a", "\"", ":", "3", "}" >>,
      << "{", "\"", "_", "C", "r", "e", "a", "t", "e", "d", "A", "t", "\"", ":",
         "1", ",", "\"", "n", "\"", ":", "{", "\"", "_", "C", "r", "e", "a",
         "t", "e", "d", "A", "t", "\"", ":", "2", "}", ",", "\"", "a", "\"",
         ":", "3", "}" >> }

BufferedPages == UNION { [1..n -> CallPageSet] : n \in 0..MaxBufferedPages }

\* Characters of a document id: the ones escape_json_string escapes, and
\* ones it does not.
IdAlphabet == { "a", "u", "/", "\"", "\\", "\n", "\r", "\t", "\f" }

DocumentIds == UNION { [1..n -> IdAlphabet] : n \in 0..MaxIdLen }

Composers == { "Ndjson", "JsonArray" }
Transformers == { "RallyS3ToEs", "Passthrough" }

Calls ==
    { [op |-> "compose", composer |-> c, transformer |-> t, pages |-> ps,
       id |-> None] : c \in Composers, t \in Transformers, ps \in BufferedPages }
    \cup { [op |-> "transform", composer |-> "", transformer |-> t,
            pages |-> << p >>, id |-> None] : t \in Transformers, p \in CallPageSet }
    \cup { [op |-> "build_es_action_line", composer |-> "", transformer |-> "",
            pages |-> <<>>, id |-> i] :
                i \in { None } \cup { Some(d) : d \in DocumentIds } }

InitCall ==
    /\ call \in Calls
    /\ ret = NoRet
    /\ app_config = [queue_capacity |-> 1, sink_parallelism |-> 1,
                     source_config |-> [kind |-> "InMemory"],
                     sink_config |-> [kind |-> "InMemory",
                                      max_request_size_bytes |-> 0]]
    /\ NoWorkers
    /\ file_source = NoFileSource
    /\ transformer = "none"
    /\ sink_file = <<>>
    /\ buf_writer = <<>>
    /\ http_log = <<>>
    /\ sink_backends = 0
    /\ run_pc = "none"
    /\ run_result = NoResult

\* transformer.transform(page)
CallTransform ==
    /\ call.op = "transform"
    /\ ~ret.done
    /\ ret' = LET t == Transform(call.transformer, call.pages[1])
              IN  [done |-> TRUE, ok |-> t.ok, items |-> t.items,
                   payload |-> <<>>, error_line |-> t.error_line]
    /\ UNCHANGED << call, app_config, worker_vars, setup_vars, backend_vars >>

\* composer.compose(pages, transformer)
CallCompose ==
    /\ call.op = "compose"
    /\ ~ret.done
    /\ ret' = LET c == compose(call.composer, call.pages, call.transformer)
              IN  [done |-> TRUE, ok |-> c.ok, items |-> <<>>,
                   payload |-> c.payload, error_line |-> 0]
    /\ UNCHANGED << call, app_config, worker_vars, setup_vars, backend_vars >>

\* build_es_action_line(the_document_id)
CallBuildEsActionLine ==
    /\ call.op = "build_es_action_line"
    /\ ~ret.done
    /\ ret' = [done |-> TRUE, ok |-> TRUE, items |-> <<>>,
               payload |-> build_es_action_line(call.id), error_line |-> 0]
    /\ UNCHANGED << call, app_config, worker_vars, setup_vars, backend_vars >>

CallNext == CallTransform \/ CallCompose \/ CallBuildEsActionLine

CallSpec == InitCall /\ [][CallNext]_vars

\* The tokio scheduler polls every task that can make progress.
FairSpec ==
    /\ Spec
    /\ WF_vars(SourceStep)
    /\ \A w \in 1..MaxSinkParallelism : WF_vars(w \in SinkWorkers /\ SinkStep(w))
    /\ WF_vars(SupervisorJoin)

TypeOK ==
    /\ app_config \in AppConfigs
    /\ cursor \in 0..Len(script)
    /\ src_pc \in {"next_page", "send", "done"}
    /\ Len(chan) <= app_config.queue_capacity
    /\ \A w \in SinkWorkers : pc[w] \in {"recv", "flush", "final_flush", "close", "done"}
    /\ sup_pc \in {"joining", "returned"}

(***************************************************************************)
(* Observations used by the properties.                                    *)
(***************************************************************************)
Range(f) == { f[i] : i \in DOMAIN f }

Failed(h) == result[h] \notin {"running", "ok"}

\* `p` occurs in `t` at offset i.
OccursAt(p, t, i) ==
    /\ i + Len(p) - 1 <= Len(t)
    /\ \A k \in 1..Len(p) : t[i + k - 1] = p[k]

\* The first offset >= i at which `p` occurs in `t`, or 0.
FirstOccurrence(p, t, i) ==
    LET S == { j \in i..(Len(t) + 1) : OccursAt(p, t, j) }
    IN  IF S = {} THEN 0 ELSE CHOOSE j \in S : \A k \in S : j <= k

\* The strings `ps` occur in `t` one after the other, in this order, from offset i on.
RECURSIVE OccurInOrder(_, _, _)
OccurInOrder(ps, t, i) ==
    IF ps = <<>> THEN TRUE
    ELSE LET j == FirstOccurrence(Head(ps), t, i)
         IN  j # 0 /\ OccurInOrder(Tail(ps), t, j + Len(Head(ps)))

\* The calls on worker w's sink that succeeded as sends.
RECURSIVE SentOf(_)
SentOf(log) ==
    IF log = <<>> THEN <<>>
    ELSE IF Head(log).op = "send" /\ Head(log).ok
         THEN <<Head(log)>> \o SentOf(Tail(log))
         ELSE SentOf(Tail(log))

\* InMemorySink::send pushes the payload to `received` and cannot fail: the
\* sequence a worker's sink holds is the payloads of its send calls in order.
InMemorySink_received(w) ==
    [i \in 1..Len(SentOf(sink_log[w])) |-> SentOf(sink_log[w])[i].payload]

SentPayloads(w) == LET e == SentOf(sink_log[w]) IN [i \in 1..Len(e) |-> e[i].payload]
SentPageIds(w) == LET e == SentOf(sink_log[w]) IN Flatten([i \in 1..Len(e) |-> e[i].pages])
CloseCalls(w) == Cardinality({ i \in 1..Len(sink_log[w]) : sink_log[w][i].op = "close" })

Delivered(w, id) ==
    \E i \in 1..Len(sink_log[w]) :
        /\ sink_log[w][i].op = "send"
        /\ sink_log[w][i].ok
        /\ id \in Range(sink_log[w][i].pages)
        /\ FirstOccurrence(script[id], sink_log[w][i].payload, 1) # 0

Increasing(ids) == \A i, j \in 1..Len(ids) : i < j => ids[i] < ids[j]

\* The Sink::send calls made on worker w's sink, successful or not.
SendCalls(w) == Cardinality({ i \in 1..Len(sink_log[w]) : sink_log[w][i].op = "send" })

RECURSIVE SumOver(_, _)
SumOver(f, S) ==
    IF S = {} THEN 0
    ELSE LET x == CHOOSE y \in S : TRUE IN f[x] + SumOver(f, S \ {x})

TotalSendCalls == SumOver([w \in SinkWorkers |-> SendCalls(w)], SinkWorkers)

TotalSourceBytes == Len(Flatten(script))

\* The run is over and the Supervisor returned Ok.
CleanRun == sup_pc = "returned" /\ sup_result = "ok"

\* The whole source fits under the flush threshold.
FitsOnePayload ==
    TotalSourceBytes + BUFFER_EPSILON_BYTES
        <= max_request_size_bytes(app_config.sink_config)

(***************************************************************************)
(* Properties.                                                             *)
(***************************************************************************)

\* C1: every page a SinkWorker has received is, at every moment, still in the
\* buffer of the running worker, or its bytes are in a payload the worker has
\* sent to its sink, or the worker has reported an error; a worker that ended
\* cleanly has delivered every page it received.
C1_NoSilentDrop ==
    \A w \in SinkWorkers :
        \A k \in 1..Len(received[w]) :
            LET id == received[w][k]
            IN  \/ Failed(w)
                \/ Delivered(w, id)
                \/ /\ pc[w] # "done"
                   /\ id \in Range(PageIds(buffer[w]))

C1_Witness ==
    \E w \in SinkWorkers :
        /\ pc[w] = "done"
        /\ result[w] = "ok"
        /\ Len(received[w]) >= 2
        /\ Len(SentPayloads(w)) >= 2
        /\ \A k \in 1..Len(received[w]) : Delivered(w, received[w][k])

\* C2: once the Source has returned None (the SourceWorker has closed the
\* channel and ended), every SinkWorker eventually terminates.
C2_ChannelClosedLiveness ==
    (src_pc = "done" /\ result[SourceHandle] = "ok")
        ~> (\A w \in SinkWorkers : pc[w] = "done")

C2_Witness ==
    /\ app_config.sink_parallelism = 2
    /\ result[SourceHandle] = "ok"
    /\ \A w \in SinkWorkers : pc[w] = "done" /\ Len(received[w]) >= 1

\* C3: after a worker has failed the run does not come to rest before the
\* Supervisor's join has finished and the Supervisor has returned the error:
\* every other worker can always continue to its completion.
C3_FailureStillJoins ==
    ((\E h \in Handles : Failed(h)) /\ ~ENABLED Next)
        => (sup_pc = "returned" /\ sup_result # "ok")

\* C4: when the Supervisor returns, every worker task has finished, and it
\* returns Ok exactly when every worker returned Ok.
C4_SupervisorResult ==
    sup_pc = "returned" =>
        /\ \A h \in Handles : result[h] # "running"
        /\ (sup_result = "ok") <=> (\A h \in Handles : result[h] = "ok")

C4_Witness ==
    /\ sup_pc = "returned"
    /\ sup_result # "ok"
    /\ result[1] = "ok"
    /\ \E w \in SinkWorkers : Failed(w)

\* C5: close() is called on a sink only when the worker's buffer is empty
\* (what was buffered at channel close has been composed and sent), and no send
\* follows a close.
C5_FlushBeforeClose ==
    \A w \in SinkWorkers :
        /\ (pc[w] = "close" \/ CloseCalls(w) > 0) =>
                /\ buffer[w] = <<>>
                /\ \A k \in 1..Len(received[w]) : Delivered(w, received[w][k])
        /\ \A i, j \in 1..Len(sink_log[w]) :
                (i < j /\ sink_log[w][i].op = "close") => sink_log[w][j].op # "send"

C5_Witness ==
    \E w \in SinkWorkers :
        /\ Len(sink_log[w]) = 2
        /\ sink_log[w][1].op = "send"
        /\ Len(sink_log[w][1].pages) >= 2
        /\ ~ShouldFlush(Len(Flatten(PageBytes([i \in 1..Len(received[w]) |->
                [id |-> received[w][i], bytes |-> script[received[w][i]]]]))),
                        max_request_size_bytes(app_config.sink_config))
        /\ sink_log[w][2].op = "close"

\* C6: a SinkWorker that has terminated, cleanly or with an error, has called
\* close() on its sink exactly once.
C6_ClosedExactlyOnce ==
    \A w \in SinkWorkers : pc[w] = "done" => CloseCalls(w) = 1

\* C7: the channel never holds more than queue_capacity pages, and while it is
\* full the SourceWorker stays suspended in send with its page: the page is
\* neither dropped nor added to the queue.
C7_Backpressure ==
    /\ [](Len(chan) <= app_config.queue_capacity)
    /\ [][(src_pc = "send" /\ Len(chan) >= app_config.queue_capacity)
            => (src_pc' = "send" /\ src_page' = src_page /\ Len(chan') <= Len(chan))]_vars

C7_Witness ==
    /\ src_pc = "send"
    /\ Len(chan) = app_config.queue_capacity
    /\ src_page.id = app_config.queue_capacity + 1

\* C8: the pages in the channel are in source emission order and were emitted
\* after every page already taken from it, and each SinkWorker has received its
\* pages in source emission order.
C8_FifoOrder ==
    /\ Increasing(PageIds(chan))
    /\ \A w \in SinkWorkers :
        /\ Increasing(received[w])
        /\ \A i \in 1..Len(received[w]) : \A j \in 1..Len(chan) :
                received[w][i] < chan[j].id

C8_Witness ==
    /\ app_config.sink_parallelism = 2
    /\ received[1] = <<1, 3>>
    /\ received[2] = <<2>>

\* C9: with a single SinkWorker, the payloads the sink accepted, concatenated
\* in send order, contain the pages of the source one after the other in
\* emission order; after a clean run they contain every page of the source.
C9_SingleWorkerOrder ==
    app_config.sink_parallelism = 1 =>
        LET n == Len(SentPageIds(1))
        IN  /\ n <= Len(script)
            /\ OccurInOrder([i \in 1..n |-> script[i]], Flatten(SentPayloads(1)), 1)
            /\ (pc[1] = "done" /\ result[1] = "ok" /\ result[SourceHandle] = "ok")
                    => n = Len(script)

C9_Witness ==
    /\ app_config.sink_parallelism = 1
    /\ pc[1] = "done"
    /\ result[1] = "ok"
    /\ Len(script) = 3
    /\ script[1] # script[2]
    /\ Len(SentPayloads(1)) = 2
    /\ Len(SentPageIds(1)) = 3

\* C10: a page whose bytes bring buffer_bytes + EPSILON to max_request_size_bytes
\* or beyond is never in the buffer together with earlier pages: those were
\* flushed before it was added.
C10_FlushBeforeAppend ==
    \A w \in SinkWorkers :
        Len(buffer[w]) >= 2 =>
            ~ShouldFlush(buffer_bytes[w], max_request_size_bytes(app_config.sink_config))

\* C11 (as stated): in every run whose total source bytes are at most
\* max_request_size_bytes - EPSILON, exactly one Sink::send call occurs in the
\* whole run.
C11_ExactlyOneSend ==
    (CleanRun /\ FitsOnePayload) => TotalSendCalls = 1

\* C11 (amended): in every clean run whose total source bytes are at most
\* max_request_size_bytes - EPSILON, a SinkWorker that received at least one
\* page calls Sink::send exactly once and a worker that received none never
\* calls it: one send in the whole run when a single worker serves a source
\* that is not empty.
C11_OneSendPerServingWorker ==
    (CleanRun /\ FitsOnePayload) =>
        /\ \A w \in SinkWorkers :
                SendCalls(w) = (IF received[w] # <<>> THEN 1 ELSE 0)
        /\ (app_config.sink_parallelism = 1 /\ script # <<>>) => TotalSendCalls = 1

C11_Witness ==
    /\ CleanRun
    /\ FitsOnePayload
    /\ app_config.sink_parallelism = 1
    /\ Len(script) = 3
    /\ TotalSendCalls = 1
    /\ Len(sink_log[1][1].pages) = 3

\* The flush condition is not met by any single page of the source and is
\* met by any two of them together.
AnyTwoPagesReachThreshold ==
    LET max == max_request_size_bytes(app_config.sink_config)
    IN  /\ Len(script) >= 2
        /\ \A i \in 1..Len(script) : ~ShouldFlush(Len(script[i]), max)
        /\ \A i, j \in 1..Len(script) :
                i # j => ShouldFlush(Len(script[i]) + Len(script[j]), max)

\* C12: when any two pages together reach the threshold with EPSILON while one
\* page alone does not, every payload carries exactly one page, and a clean
\* run has made as many send calls as the source has pages.
C12_OnePagePerPayload ==
    AnyTwoPagesReachThreshold =>
        /\ \A w \in SinkWorkers : \A i \in 1..Len(sink_log[w]) :
                sink_log[w][i].op = "send" => Len(sink_log[w][i].pages) = 1
        /\ CleanRun => TotalSendCalls = Len(script)

\* A call of Source::next_page, whatever it returns.
SourceNextPage == SourceNextPageErr \/ SourceNextPageSome \/ SourceNextPageNone

\* C16: the step in which next_page returns None ends the SourceWorker's loop,
\* and a SourceWorker that has ended never runs again: no next_page call
\* follows the None.
C16_NoPollAfterNone ==
    /\ [][SourceNextPageNone => (src_pc' = "done" /\ ~(ENABLED SourceNextPage)')]_vars
    /\ [][src_pc = "done" => (src_pc' = "done" /\ ~SourceNextPage)]_vars

C16_Witness ==
    /\ src_pc = "done"
    /\ result[SourceHandle] = "ok"
    /\ cursor = Len(script)
    /\ Len(script) >= 2
    /\ chan # <<>>
    /\ \E w \in SinkWorkers : pc[w] = "recv"

\* The lines of a file, without their terminators (LF, or CRs and LF).
RECURSIVE SourceLines(_, _)
SourceLines(content, pos) ==
    LET line == read_line(content, pos)
    IN  IF line = <<>> THEN <<>>
        ELSE <<trim_end_matches(trim_end_matches(line, "\n"), "\r")>>
                \o SourceLines(content, pos + Len(line))

\* The lines, each followed by one newline.
LinesTerminated(lines) == Flatten([i \in 1..Len(lines) |-> lines[i] \o <<"\n">>])

NoBlankLine(lines) == \A i \in 1..Len(lines) : lines[i] # <<>>

\* C13 (as stated): for every configuration with a File source of L lines and
\* a File sink resolved to Passthrough, the sink file after the run contains
\* exactly the L lines of the source, in order, each terminated by a newline.
C13_SameLines ==
    CleanRun =>
        sink_file = LinesTerminated(SourceLines(file_source.content, 0))

\* C13 (amended): with a single SinkWorker and a source file none of whose L
\* lines is blank, the sink file after a clean run contains exactly the L
\* lines of the source (without their CR/LF terminators), in order, each
\* terminated by a newline.
C13_SameLinesSingleWorker ==
    (CleanRun /\ app_config.sink_parallelism = 1
        /\ NoBlankLine(SourceLines(file_source.content, 0)))
            => sink_file = LinesTerminated(SourceLines(file_source.content, 0))

C13_Witness ==
    /\ CleanRun
    /\ app_config.sink_parallelism = 1
    /\ file_source.content = <<"a", "\r", "\n", "b", "\r", "\n">>
    /\ Len(script) = 2
    /\ sink_file = <<"a", "\n", "b", "\n">>

\* What one worker that received every page writes: the NDJSON frame of the
\* pages in source order.
SequentialOutput == NdjsonFrame(script)

\* C14 (as stated): the bytes of the sink file after a File-to-File run are
\* the same in every run on the same input and configuration, whatever the
\* scheduling: the bytes the run writes in which one worker receives every
\* page.
C14_SameOutputEveryRun ==
    CleanRun => sink_file = SequentialOutput

\* C14 (amended): with a single SinkWorker, every clean File-to-File run on
\* the same input and configuration leaves the same bytes in the sink file.
C14_SameOutputSingleWorker ==
    (CleanRun /\ app_config.sink_parallelism = 1) => sink_file = SequentialOutput

C14_Witness ==
    /\ CleanRun
    /\ app_config.sink_parallelism = 1
    /\ Len(script) = 3
    /\ Len(SentPayloads(1)) = 3
    /\ sink_file = SequentialOutput

\* With two workers the sequential output is one of the outcomes.
C14_SequentialOutcomeOfTwoWorkers ==
    /\ CleanRun
    /\ app_config.sink_parallelism = 2
    /\ Len(script) >= 2
    /\ sink_file = SequentialOutput

\* Bytes that are not line terminators remain after the reader's position.
UnreadNonBlankLine ==
    \E i \in (file_source.pos + 1)..Len(file_source.content) :
        file_source.content[i] \notin { "\n", "\r" }

\* C17: next_page returns None only at end-of-stream: while unread non-blank
\* lines remain it returns a non-empty page.
C17_NoneOnlyAtEndOfStream ==
    LET n == Len(file_source.returned)
    IN  (n > 0 /\ file_source.returned[n].ok) =>
            /\ file_source.returned[n].page = None => ~UnreadNonBlankLine
            /\ file_source.returned[n].page # None =>
                    file_source.returned[n].page[1] # <<>>

(***************************************************************************)
(* Startup: transformer resolution and the sink preflight.                 *)
(***************************************************************************)
SourceKind == app_config.source_config.kind
SinkKind == app_config.sink_config.kind

\* The pairs that resolve to the Rally-to-bulk transform, and to Passthrough.
RallyPair == SourceKind \in { "File", "S3Rally" } /\ SinkKind = "Elasticsearch"
PassthroughPair ==
    \/ SourceKind = "File" /\ SinkKind = "File"
    \/ SourceKind = "InMemory" /\ SinkKind = "InMemory"
    \/ SourceKind = "Elasticsearch" /\ SinkKind = "File"

\* run() has gone through the resolution of the transformer.
Resolved == run_pc \in { "start_workers", "workers_started", "panicked" }

NoTaskSpawned ==
    /\ pc = <<>>
    /\ src_pc = "not_started"
    /\ sup_pc = "not_started"
    /\ run_pc # "workers_started"

\* C18: once startup has resolved the transformer, a (File, Elasticsearch) or
\* (S3Rally, Elasticsearch) pair has RallyS3ToEs, and a (File, File),
\* (InMemory, InMemory) or (Elasticsearch, File) pair has Passthrough.
C18_ResolutionTable ==
    Resolved =>
        /\ RallyPair => transformer = "RallyS3ToEs"
        /\ PassthroughPair => transformer = "Passthrough"

\* C19: for a pair outside the table no transformer is ever resolved and no
\* task is ever spawned; once every sink backend is built the run has
\* panicked.
C19_UnsupportedPairFailsLoudly ==
    ~(RallyPair \/ PassthroughPair) =>
        /\ transformer \in { "none", "panic" }
        /\ NoTaskSpawned
        /\ run_pc # "start_workers"
        /\ Resolved => (run_pc = "panicked" /\ run_result.status = "panic")

\* An unsupported pair whose backends were all built: the resolution panicked.
C19_Witness ==
    /\ ~(RallyPair \/ PassthroughPair)
    /\ sink_backends = app_config.sink_parallelism
    /\ run_pc = "panicked"

\* The i-th request was the index check and was answered with a non-2xx status.
IndexCheckRefused(i) ==
    /\ app_config.sink_config.index # None
    /\ http_log[i].method = "GET"
    /\ http_log[i].url = IndexUrl(app_config.sink_config)
    /\ http_log[i].status # 0
    /\ ~is_success(http_log[i].status)

\* C20: a non-2xx answer to the index check is the last request of the run:
\* run() has returned the sink-construction error, which names the index url,
\* and no task was spawned.
C20_IndexPreflightFails ==
    \A i \in DOMAIN http_log :
        IndexCheckRefused(i) =>
            /\ i = Len(http_log)
            /\ run_pc = "returned"
            /\ run_result.status = "err"
            /\ run_result.context = "Failed to create sink backend"
            /\ run_result.names = IndexUrl(app_config.sink_config)
            /\ NoTaskSpawned

\* The first sink backend was built, the index check of the second got a 404.
C20_Witness ==
    /\ sink_backends = 1
    /\ Len(http_log) = 4
    /\ IndexCheckRefused(4)
    /\ http_log[4].status = 404
    /\ is_success(http_log[2].status)
    /\ run_pc = "returned"

(***************************************************************************)
(* No retry.                                                               *)
(***************************************************************************)
\* The Sink::send calls of the run, of every worker.
AllSends ==
    { << w, i >> \in SinkWorkers \X (1..MaxPages + 1) :
        i <= Len(sink_log[w]) /\ sink_log[w][i].op = "send" }

\* No page is part of two payloads handed to Sink::send.
SentAtMostOnce ==
    \A a, b \in AllSends :
        a # b => Range(sink_log[a[1]][a[2]].pages)
                    \cap Range(sink_log[b[1]][b[2]].pages) = {}

\* A send that failed is the last call on that worker's sink.
NothingAfterFailedSend ==
    \A a \in AllSends :
        ~sink_log[a[1]][a[2]].ok => a[2] = Len(sink_log[a[1]])

\* Every send made one POST to the bulk url with the payload as its body.
OneAttemptPerSend ==
    /\ Len(http_log) = Cardinality(AllSends)
    /\ \A k \in DOMAIN http_log :
            /\ http_log[k].method = "POST"
            /\ http_log[k].url = BulkUrl(app_config.sink_config)
    /\ \A a \in AllSends :
            LET payload == sink_log[a[1]][a[2]].payload
            IN  Cardinality({ k \in DOMAIN http_log : http_log[k].body = payload })
                = Cardinality({ b \in AllSends :
                                    sink_log[b[1]][b[2]].payload = payload })

\* C15: no page is handed to Sink::send in two payloads, a failed send is the
\* last call on its sink, every send is exactly one HTTP request, and once
\* next_page has failed it is not called again.
C15_NoRetry ==
    /\ [](SentAtMostOnce /\ NothingAfterFailedSend /\ OneAttemptPerSend)
    /\ [][result[SourceHandle] = "err_next_page" => ~SourceNextPage]_vars

\* One worker's bulk request was answered with 500 after another bulk request
\* of the run had succeeded, and the source has ended.
C15_Witness ==
    /\ \E a \in AllSends :
            /\ ~sink_log[a[1]][a[2]].ok
            /\ result[a[1]] = "err_send"
    /\ \E k \in DOMAIN http_log : http_log[k].status = 500
    /\ \E k \in DOMAIN http_log : is_success(http_log[k].status)
    /\ src_pc = "done"

(***************************************************************************)
(* The composers and the transforms as functions.                          *)
(***************************************************************************)
\* The items of the buffered pages: page by page in buffer order, each
\* page's items in the order the transform returned them.
RECURSIVE ItemsInOrder(_, _)
ItemsInOrder(pages, tf) ==
    IF pages = <<>> THEN <<>>
    ELSE ItemsInOrder(SubSeq(pages, 1, Len(pages) - 1), tf)
         \o Transform(tf, pages[Len(pages)]).items

\* The total length of the first k items.
RECURSIVE LenUpTo(_, _)
LenUpTo(items, k) == IF k = 0 THEN 0 ELSE LenUpTo(items, k - 1) + Len(items[k])

ComposeReturnedOk(composer) ==
    call.op = "compose" /\ call.composer = composer /\ ret.done /\ ret.ok

\* C21: the NDJSON composer's output is every item of the buffered pages, in
\* buffer order and transform order, each followed by exactly one newline,
\* the last one too; an empty buffer yields the empty string.
C21_NdjsonEveryItemNewlineTerminated ==
    ComposeReturnedOk("Ndjson") =>
        LET items == ItemsInOrder(call.pages, call.transformer)
            Start(k) == LenUpTo(items, k - 1) + (k - 1)
        IN  /\ Len(ret.payload) = LenUpTo(items, Len(items)) + Len(items)
            /\ \A k \in 1..Len(items) :
                  /\ SubSeq(ret.payload, Start(k) + 1, Start(k) + Len(items[k]))
                        = items[k]
                  /\ ret.payload[Start(k) + Len(items[k]) + 1] = "\n"
            /\ (call.pages = <<>> => ret.payload = <<>>)

\* Two buffered pages of which one has two items were composed to NDJSON.
C21_Witness ==
    /\ ComposeReturnedOk("Ndjson")
    /\ Len(call.pages) = 2
    /\ Len(ItemsInOrder(call.pages, call.transformer)) >= 3
    /\ ret.payload[Len(ret.payload)] = "\n"

\* C22: the JSON array composer's output is "[", the items of the buffered
\* pages in order with one comma between two items and nothing else added,
\* and "]"; an empty buffer yields "[]"; the items are copied as they are,
\* JSON or not.
C22_JsonArrayCommaSeparated ==
    /\ ComposeReturnedOk("JsonArray") =>
        LET items == ItemsInOrder(call.pages, call.transformer)
            n == Len(items)
            Start(k) == 1 + LenUpTo(items, k - 1) + (k - 1)
        IN  /\ Len(ret.payload)
                  = 2 + LenUpTo(items, n) + (IF n = 0 THEN 0 ELSE n - 1)
            /\ ret.payload[1] = "["
            /\ ret.payload[Len(ret.payload)] = "]"
            /\ \A k \in 1..n :
                  /\ SubSeq(ret.payload, Start(k) + 1, Start(k) + Len(items[k]))
                        = items[k]
                  /\ k < n => ret.payload[Start(k) + Len(items[k]) + 1] = ","
            /\ (call.pages = <<>> => ret.payload = << "[", "]" >>)
    /\ (call.op = "compose" /\ call.transformer = "Passthrough" /\ ret.done)
            => ret.ok

\* Two pages, one of them not JSON, were wrapped into an array as they are.
C22_Witness ==
    /\ ComposeReturnedOk("JsonArray")
    /\ call.transformer = "Passthrough"
    /\ Len(call.pages) = 2
    /\ call.pages[1] = << "x" >>
    /\ call.pages[2] # call.pages[1]

IsNonEmptyLine(line) == line # <<>>

\* The non-empty lines of the pages, in page order and line order.
RECURSIVE NonEmptyLinesOf(_)
NonEmptyLinesOf(pages) ==
    IF pages = <<>> THEN <<>>
    ELSE SelectSeq(split_lines(Head(pages), <<>>), IsNonEmptyLine)
         \o NonEmptyLinesOf(Tail(pages))

\* The pieces of a text between its newlines: the text before the first
\* newline, between two newlines, and after the last one.
Pieces(text) ==
    LET nl == { i \in 1..Len(text) : text[i] = "\n" }
        at(k) == IF k = 0 THEN 0
                 ELSE IF k > Cardinality(nl) THEN Len(text) + 1
                 ELSE CHOOSE i \in nl : Cardinality({ j \in nl : j <= i }) = k
    IN  [k \in 1..(Cardinality(nl) + 1) |->
            SubSeq(text, at(k - 1) + 1, at(k) - 1)]

RallyToBulkComposed ==
    ComposeReturnedOk("Ndjson") /\ call.transformer = "RallyS3ToEs"

\* The action line the document of a line gets.
ActionLineOf(doc) ==
    build_es_action_line(the_document_identity(map_get(doc, ObjectID)))

\* C23: RallyToBulk followed by NDJSON composition yields (action line,
\* newline, source line, newline) pairs and nothing else: one pair for each
\* non-empty input line, the k-th pair made from the k-th non-empty line.
C23_ActionSourcePairs ==
    RallyToBulkComposed =>
        LET lines == NonEmptyLinesOf(call.pages)
            pieces == Pieces(ret.payload)
        IN  /\ Len(pieces) = 2 * Len(lines) + 1
            /\ pieces[Len(pieces)] = <<>>
            /\ \A k \in 1..Len(lines) :
                  /\ pieces[2 * k - 1] = ActionLineOf(from_str(lines[k]).value)
                  /\ pieces[2 * k] = the_cleaned_body(from_str(lines[k]).value)

\* A page with a blank line between two different documents, and one more
\* page, were transformed and composed.
C23_Witness ==
    /\ RallyToBulkComposed
    /\ Len(call.pages) = 2
    /\ Len(split_lines(call.pages[1], <<>>)) = 4
    /\ Len(NonEmptyLinesOf(call.pages)) = 4
    /\ LET pieces == Pieces(ret.payload)
       IN  pieces[1] # pieces[3] /\ pieces[2] # pieces[4]

MetadataKeys ==
    { THE_METADATA_FIELDS_WE_DONT_NEED[i] :
        i \in DOMAIN THE_METADATA_FIELDS_WE_DONT_NEED }

KeysOf(value) == { value.members[i].key : i \in DOMAIN value.members }

RallyToBulkTransformed ==
    /\ call.op = "transform"
    /\ call.transformer = "RallyS3ToEs"
    /\ ret.done
    /\ ret.ok

\* The source line of an item: what follows the action line and its newline.
SourceLineOf(item) == Pieces(item)[2]

\* C24: the source line of every RallyToBulk item is a JSON object with the
\* keys of its input document except the six metadata keys, and every key it
\* has carries the input's value, nested metadata keys included.
C24_TopLevelMetadataStripped ==
    RallyToBulkTransformed =>
        LET lines == NonEmptyLinesOf(call.pages)
        IN  /\ Len(ret.items) = Len(lines)
            /\ \A k \in 1..Len(lines) :
                  LET before == from_str(lines[k]).value
                      after == from_str(SourceLineOf(ret.items[k]))
                  IN  /\ after.ok
                      /\ KeysOf(after.value) = KeysOf(before) \ MetadataKeys
                      /\ \A key \in KeysOf(after.value) :
                            map_get(after.value, key) = map_get(before, key)

\* A document with a metadata key at the top level and the same key inside
\* a nested object was transformed: the nested one is still there.
C24_Witness ==
    /\ RallyToBulkTransformed
    /\ Len(ret.items) = 1
    /\ LET before == from_str(call.pages[1]).value
           after == from_str(SourceLineOf(ret.items[1])).value
       IN  /\ from_str(call.pages[1]).ok
           /\ \E key \in KeysOf(before) \cap MetadataKeys :
                \E other \in KeysOf(after) :
                    key \in KeysOf(map_get(after, other)[1])

ActionLineBuilt == call.op = "build_es_action_line" /\ ret.done

\* The characters escape_json_string writes as an escape sequence.
EscapedChars == { "\"", "\\" } \cup ControlChars

ActionLinePrefix ==
    << "{", "\"", "i", "n", "d", "e", "x", "\"", ":", "{",
       "\"", "_", "i", "d", "\"", ":", "\"" >>

ActionLineSuffix == << "\"", "}", "}" >>

\* C25: the action line of a document id is JSON text that parses to
\* {"index":{"_id": id}} with exactly the id it was built from; it holds no
\* raw control character, and an id without quote, backslash and control
\* characters is emitted as it is.
C25_ActionLineRoundTrip ==
    (ActionLineBuilt /\ call.id # None) =>
        LET parsed == from_str(ret.payload)
            index == map_get(parsed.value, << "i", "n", "d", "e", "x" >>)
            id == map_get(index[1], << "_", "i", "d" >>)
        IN  /\ parsed.ok
            /\ parsed.value.type = "object"
            /\ KeysOf(parsed.value) = { << "i", "n", "d", "e", "x" >> }
            /\ index[1].type = "object"
            /\ KeysOf(index[1]) = { << "_", "i", "d" >> }
            /\ id[1] = JsonString(call.id[1])
            /\ \A i \in 1..Len(ret.payload) : ret.payload[i] \notin ControlChars
            /\ (\A i \in 1..Len(call.id[1]) : call.id[1][i] \notin EscapedChars)
                    => ret.payload
                         = ActionLinePrefix \o call.id[1] \o ActionLineSuffix

\* An id with a backslash and a control character below 0x20 that has no
\* short escape was put into an action line.
C25_Witness ==
    /\ ActionLineBuilt
    /\ call.id = Some(<< "\\", "\f" >>)
    /\ Len(ret.payload) = Len(ActionLinePrefix) + 8 + Len(ActionLineSuffix)

\* The numbers of the lines of a page that are not empty and not JSON.
BadLines(page) ==
    LET lines == split_lines(page, <<>>)
    IN  { k \in 1..Len(lines) : lines[k] # <<>> /\ ~from_str(lines[k]).ok }

BulkFormatted(page) ==
    \E p \in RallyPageSet :
        /\ RallyS3ToEsTransform(p).ok
        /\ page \in Range(RallyS3ToEsTransform(p).items)

\* The source pages of a send call, as the source returned them.
SourcePagesOf(a) ==
    [i \in DOMAIN sink_log[a[1]][a[2]].pages |->
        script[sink_log[a[1]][a[2]].pages[i]]]

\* The items of the pages after one application of RallyToBulk, each with
\* its newline.
RECURSIVE TransformedOnce(_, _)
TransformedOnce(pages, k) ==
    IF k > Len(pages) THEN <<>>
    ELSE NdjsonFrame(RallyS3ToEsTransform(pages[k]).items)
         \o TransformedOnce(pages, k + 1)

\* C27 as stated: RallyToBulk never succeeds on bulk-formatted input, so no
\* payload is made from a page that is its own output.
C27_NeverSucceedsOnBulkInput ==
    \A a \in AllSends :
        \A i \in DOMAIN SourcePagesOf(a) : ~BulkFormatted(SourcePagesOf(a)[i])

\* C27, amended: no pipeline applies RallyToBulk to its own output. What
\* travels from the source to a worker's buffer is the source's page as it
\* was read, every payload is the pages it was made from transformed exactly
\* once, and a payload only goes into the body of a bulk request.
C27_TransformedExactlyOnce ==
    /\ transformer = "RallyS3ToEs"
    /\ \A i \in DOMAIN chan : chan[i].bytes = script[chan[i].id]
    /\ \A w \in SinkWorkers :
            \A i \in DOMAIN buffer[w] : buffer[w][i].bytes = script[buffer[w][i].id]
    /\ \A a \in AllSends :
            sink_log[a[1]][a[2]].payload = TransformedOnce(SourcePagesOf(a), 1)
    /\ \A k \in DOMAIN http_log :
            \E a \in AllSends : http_log[k].body = sink_log[a[1]][a[2]].payload

\* A source page that is already in the bulk format went through the
\* transform and was accepted by the bulk endpoint.
C27_Witness ==
    \E a \in AllSends :
        /\ sink_log[a[1]][a[2]].ok
        /\ \E i \in DOMAIN SourcePagesOf(a) : BulkFormatted(SourcePagesOf(a)[i])
        /\ \E k \in DOMAIN http_log :
                /\ http_log[k].body = sink_log[a[1]][a[2]].payload
                /\ is_success(http_log[k].status)

\* C28: every bulk POST carries "ApiKey <key>" when an api_key is configured,
\* with or without a username; otherwise basic auth with the username and the
\* password when a username is configured; otherwise no Authorization header.
C28_BulkAuthorization ==
    \A k \in DOMAIN http_log :
        LET config == app_config.sink_config
            sent == http_log[k].authorization
        IN  /\ http_log[k].method = "POST"
            /\ IF config.api_key # None
               THEN /\ sent # None
                    /\ sent[1].scheme = "ApiKey"
                    /\ sent[1].credentials = << config.api_key[1] >>
               ELSE IF config.username # None
               THEN /\ sent # None
                    /\ sent[1].scheme = "Basic"
                    /\ sent[1].credentials
                          = << config.username[1] >> \o config.password
               ELSE sent = None

\* A bulk request went out under a configuration with both an api_key and a
\* username.
C28_Witness ==
    /\ app_config.sink_config.api_key # None
    /\ app_config.sink_config.username # None
    /\ Len(http_log) >= 2
    /\ http_log[1].authorization # None

(***************************************************************************)
(* The in-memory fixture.                                                  *)
(***************************************************************************)
\* C29: an InMemory-to-InMemory run with one SinkWorker ends without error
\* and with the sink holding exactly one payload: "[", the source's single
\* page as it is, "]". The sink never holds more than that.
C29_InMemoryFixture ==
    app_config.sink_parallelism = 1 =>
        /\ transformer = "Passthrough"
        /\ Len(InMemorySink_received(1)) <= 1
        /\ sup_pc = "returned" =>
                /\ sup_result = "ok"
                /\ InMemorySink_received(1)
                      = << << "[" >> \o the_sacred_page \o << "]" >> >>

\* The run with one SinkWorker has ended and the sink holds a payload.
C29_Witness ==
    /\ app_config.sink_parallelism = 1
    /\ sup_pc = "returned"
    /\ Len(InMemorySink_received(1)) = 1
    /\ Len(InMemorySink_received(1)[1]) = Len(the_sacred_page) + 2

(***************************************************************************)
(* The size of a File source's pages.                                      *)
(***************************************************************************)
\* The lines of a page: one more than its newlines.
LinesOfPage(page) == Cardinality({ i \in 1..Len(page) : page[i] = "\n" }) + 1

\* C30: every page a File source returns has at most max_batch_size_docs
\* lines, whatever max_batch_size_docs and the file are.
C30_PageWithinMaxDocs ==
    \A i \in DOMAIN file_source.returned :
        file_source.returned[i].page # None =>
            LinesOfPage(file_source.returned[i].page[1])
                <= app_config.source_config.max_batch_size_docs

(***************************************************************************)
(* Failures and the end of the run.                                        *)
(***************************************************************************)
\* C31: after next_page has returned an error the run does not come to rest
\* before the SourceWorker has returned that error, every SinkWorker has
\* terminated and the Supervisor has returned the error.
C31_SourceErrorEndsRun ==
    (result[SourceHandle] = "err_next_page" /\ ~ENABLED Next) =>
        /\ \A w \in SinkWorkers : pc[w] = "done"
        /\ sup_pc = "returned"
        /\ sup_result = "err_next_page"

\* C32: when every SinkWorker has terminated with an error the run does not
\* come to rest with the SourceWorker waiting on the channel: the
\* SourceWorker terminates and the Supervisor's join ends.
C32_SourceNotBlockedForever ==
    ((\A w \in SinkWorkers : Failed(w)) /\ ~ENABLED Next) =>
        /\ src_pc = "done"
        /\ sup_pc = "returned"

\* The ids of the pages waiting in the channel.
Queued == { chan[i].id : i \in 1..Len(chan) }

\* The ids of the pages some SinkWorker has received.
ReceivedBySome == UNION { Range(received[w]) : w \in SinkWorkers }

SentBytes(w) == Len(Flatten(SentPayloads(w)))

\* C34: with a File sink and more than one SinkWorker the sink file after a
\* clean run holds every payload every worker sent, none written over
\* another: each payload occurs in the file and the file is as long as the
\* payloads together.
C34_FileHoldsEveryPayload ==
    (CleanRun /\ app_config.sink_config.kind = "File"
              /\ app_config.sink_parallelism > 1) =>
        /\ \A w \in SinkWorkers : \A i \in 1..Len(SentPayloads(w)) :
                FirstOccurrence(SentPayloads(w)[i], sink_file, 1) # 0
        /\ Len(sink_file) = SumOver([w \in SinkWorkers |-> SentBytes(w)], SinkWorkers)

\* A RuntimeConfig outside the documented range.
ZeroRuntimeConfig ==
    app_config.queue_capacity = 0 \/ app_config.sink_parallelism = 0

\* C35: a configuration whose queue_capacity or sink_parallelism is 0 never
\* gets as far as starting workers or creating the channel: run() returns an
\* error for it.
C35_ZeroRuntimeConfigRejected ==
    ZeroRuntimeConfig =>
        /\ run_pc \notin { "workers_started", "panicked" }
        /\ run_pc = "returned" => run_result.status = "err"

\* The errors a worker's task can end with.
WorkerErrors == { "err_next_page", "err_channel_send", "err_compose", "err_send", "err_close" }

\* C36: the error the Supervisor returns is the one that occurred first: once
\* some worker has failed, an error no worker has ended with yet is never the
\* one the Supervisor returns later.
C36_FirstErrorInTime ==
    \A e \in WorkerErrors :
        []( ((\E h \in Handles : Failed(h)) /\ (\A h \in Handles : result[h] # e))
                => [](sup_pc = "returned" => sup_result # e) )

\* C37: in the step in which a SinkWorker receives a page, the page is
\* appended to the buffer and its length added to the byte count, and the
\* worker goes on to flush, before it receives again, if and only if the new
\* byte count plus EPSILON is at least max_request_size_bytes.
C37_FlushIffThreshold ==
    [][ \A w \in 1..MaxSinkParallelism :
            (w \in SinkWorkers /\ Len(received'[w]) = Len(received[w]) + 1) =>
                /\ pc[w] = "recv"
                /\ Len(buffer'[w]) = Len(buffer[w]) + 1
                /\ buffer_bytes'[w] =
                        buffer_bytes[w] + Len(buffer'[w][Len(buffer'[w])].bytes)
                /\ pc'[w] \in { "flush", "recv" }
                /\ (pc'[w] = "flush") <=>
                        (buffer_bytes'[w] + BUFFER_EPSILON_BYTES
                            >= max_request_size_bytes(app_config.sink_config))
      ]_vars

\* C37 witness: a SinkWorker is about to flush two buffered pages whose bytes
\* plus EPSILON are exactly max_request_size_bytes.
C37_Witness ==
    \E w \in SinkWorkers :
        /\ pc[w] = "flush"
        /\ Len(buffer[w]) = 2
        /\ buffer_bytes[w] + BUFFER_EPSILON_BYTES
                = max_request_size_bytes(app_config.sink_config)

\* The ids of the pages the SourceWorker has put into the channel.
Enqueued == { id \in 1..cursor : id # src_page.id }

\* How many times page `id` occurs in what worker w received.
TimesReceived(w, id) == Cardinality({ k \in 1..Len(received[w]) : received[w][k] = id })

Oversized(id) ==
    ShouldFlush(Len(script[id]), max_request_size_bytes(app_config.sink_config))

\* The Sink::send calls of worker w whose payload was composed from page `id`.
SendsOf(w, id) ==
    { i \in 1..Len(sink_log[w]) :
        sink_log[w][i].op = "send" /\ id \in Range(sink_log[w][i].pages) }

\* C39: a page that alone reaches the flush threshold is neither dropped nor
\* split: the worker that received it is about to flush it, or has passed it
\* whole to Sink::send in one call; and when the sink rejected that call the
\* worker has ended with the send error, which a Supervisor that returns does
\* not turn into Ok.
C39_OversizedPageSentWhole ==
    \A w \in SinkWorkers : \A k \in 1..Len(received[w]) :
        LET id == received[w][k]
        IN  Oversized(id) =>
                /\ Cardinality(SendsOf(w, id)) <= 1
                /\ \A i \in SendsOf(w, id) :
                        /\ FirstOccurrence(script[id], sink_log[w][i].payload, 1) # 0
                        /\ ~sink_log[w][i].ok =>
                                /\ result[w] = "err_send"
                                /\ sup_pc = "returned" => sup_result # "ok"
                /\ SendsOf(w, id) = {} =>
                        /\ pc[w] = "flush"
                        /\ id \in Range(PageIds(buffer[w]))

\* C39 witness: a three-byte page that alone reaches the threshold was sent
\* on its own, and the sink rejected it.
C39_Witness ==
    \E w \in SinkWorkers : \E id \in 1..Len(script) :
        /\ Len(script[id]) = 3
        /\ max_request_size_bytes(app_config.sink_config) = BUFFER_EPSILON_BYTES + 2
        /\ \E i \in SendsOf(w, id) :
                /\ sink_log[w][i].pages = << id >>
                /\ ~sink_log[w][i].ok
        /\ result[w] = "err_send"

\* What worker w's flush would compose from its buffer.
ComposedOf(w) ==
    compose(from_sink_config(app_config.sink_config), PageBytes(buffer[w]), transformer)

\* C40: no step calls Sink::send with an empty payload or with "[]", and the
\* flush of a buffer that composes to either of them calls nothing on the
\* sink: it clears the buffer and the worker goes on.
C40_NoEmptyPayloadSent ==
    [][ \A w \in 1..MaxSinkParallelism :
            (w \in SinkWorkers /\ pc[w] \in { "flush", "final_flush" } /\ pc'[w] # pc[w]) =>
                /\ (sink_log'[w] # sink_log[w]) =>
                        LET e == sink_log'[w][Len(sink_log'[w])]
                        IN  /\ e.op = "send"
                            /\ e.payload # <<>>
                            /\ e.payload # << "[", "]" >>
                /\ (ComposedOf(w).ok /\ ComposedOf(w).payload \in { <<>>, << "[", "]" >> }) =>
                        /\ sink_log'[w] = sink_log[w]
                        /\ http_log' = http_log
                        /\ buffer'[w] = <<>>
                        /\ buffer_bytes'[w] = 0
                        /\ result'[w] = "running"
      ]_vars

\* C40 witness: a SinkWorker that received pages has emptied its buffer in a
\* flush and gone on to close without a single call of Sink::send.
C40_Witness ==
    \E w \in SinkWorkers :
        /\ received[w] # <<>>
        /\ buffer[w] = <<>>
        /\ pc[w] = "close"
        /\ sink_log[w] = <<>>

====
